---- MODULE Spec2Model ----
(***************************************************************************)
(* Wake scheduler, recurrence calculator and session-lock store of the     *)
(* voice streaming server (services/alarms, services/session_context) and  *)
(* the lock-store side of a device connection (core/connection.py).        *)
(*                                                                         *)
(* Time is a whole number of ticks since an epoch whose day 0 is a Monday. *)
(* Every instant the program compares or adds (now, nextOccurrenceUTC,     *)
(* expiresAt, ...) is such a number; a timedelta is a number of ticks.     *)
(* A stored instant is written with _format_datetime and read back with    *)
(* _parse_datetime (firestore_client.py:158-174); on whole ticks that      *)
(* round trip loses nothing, so a stored instant is the number itself.     *)
(***************************************************************************)
EXTENDS Integers, Sequences, FiniteSets, TLC

VARIABLES clock, alarms, sessions, deviceConv, conns, convCounter, wakeCount,
          lastOp, calc, scanners, followup

vars == <<clock, alarms, sessions, deviceConv, conns, convCounter, wakeCount,
          lastOp, calc, scanners, followup>>

(***************************************************************************)
(* Bounds of the model.                                                    *)
(***************************************************************************)
\* ticks in one day (scaled down so that whole weeks are explored)
DayLen == 8
\* last instant the wall clock reaches
MaxTime == 7
\* store calls that may fail during one scan
MaxFailures == 1
\* conversations the LLM provider hands out
MaxConvs == 2
\* wake requests counted per occurrence and device (the count saturates)
MaxWakeCount == 2
\* distance between now and nextOccurrenceUTC tried by the calculator runs
CalcSkew == 1
\* followup_max of the mode configuration: follow-ups per connection
FollowupMax == 2
\* follow-up timer coroutines alive on the event loop at one moment
MaxTimers == 2
\* worker threads of the connection's executor (max_workers)
MaxWorkers == 2
\* follow-ups scheduled one after the other when the delays are tabulated
MaxDelayIndex == 5
\* frames handed to the audio reorder buffer on one connection
MaxFrames == 4
\* capacity of the held-back set (20 in the source)
MaxBufferSize == 2

\* Python's None for an optional instant, number or id
None == 0 - 1

Max(a, b) == IF a >= b THEN a ELSE b

(***************************************************************************)
(* services/alarms/models.py                                               *)
(***************************************************************************)
DAY_NAMES == <<"Mon", "Tue", "Wed", "Thu", "Fri", "Sat", "Sun">>

\* _DAY_TO_INDEX = {name: idx for idx, name in enumerate(DAY_NAMES)}
_DAY_TO_INDEX(name) == (CHOOSE i \in 1..7 : DAY_NAMES[i] = name) - 1

(***************************************************************************)
(* Time zones: ZoneInfo(name) for zones with a fixed UTC offset, given in  *)
(* ticks.  The empty name stands for a trigger without timezone metadata.  *)
(***************************************************************************)
UtcOffset(name) == CASE name = "UTC" -> 0
                     [] name = "West" -> 0 - 3
                     [] name = "East" -> 2

\* datetime.astimezone(tzinfo): the local wall-clock value of an instant
ToLocal(utc, name) == utc + UtcOffset(name)

\* local.astimezone(timezone.utc)
ToUtc(local, name) == local - UtcOffset(name)

\* datetime.date(): the day number of a local wall-clock value
DateOf(local) == local \div DayLen

\* date.weekday(): Monday is 0
Weekday(date) == date % 7

\* datetime.combine(date, time)
Combine(date, time) == date * DayLen + time

(***************************************************************************)
(* services/alarms/scheduler.py : _resolve_timezone, compute_next_occurrence*)
(***************************************************************************)
\* result of a call that may raise
Raised == [raised |-> TRUE, value |-> None]
Returned(v) == [raised |-> FALSE, value |-> v]

_resolve_timezone(alarm) ==
    IF alarm.timezone = "" THEN Raised ELSE Returned(alarm.timezone)

AllowedDays(alarm) ==
    LET named == {_DAY_TO_INDEX(d) : d \in alarm.days}
    IN  IF named = {} THEN 0..6 ELSE named

\* start_utc as a mis-written calculator would take it: the scan instant alone
StartUtcFromNow(alarm, now) == now

\* start_utc = max(alarm.next_occurrence_utc or now_utc, now_utc)
StartUtc(alarm, now) ==
    Max(IF alarm.next_occurrence_utc = None THEN now ELSE alarm.next_occurrence_utc,
        now)

\* the same loop accepting a candidate equal to the start (>= for >)
RECURSIVE ScanDaysInclusive(_, _, _, _, _)
ScanDaysInclusive(delta, start_local, alarm_time, allowed_days, tz) ==
    IF delta > 7
    THEN ToUtc(Combine(DateOf(start_local) + 7, alarm_time), tz)
    ELSE LET candidate_date  == DateOf(start_local) + delta
             candidate_local == Combine(candidate_date, alarm_time)
         IN  IF Weekday(candidate_date) \notin allowed_days
             THEN ScanDaysInclusive(delta + 1, start_local, alarm_time, allowed_days, tz)
             ELSE IF candidate_local >= start_local
                  THEN ToUtc(candidate_local, tz)
                  ELSE ScanDaysInclusive(delta + 1, start_local, alarm_time, allowed_days, tz)

\* the loop "for delta in range(0, 8)" from delta on
RECURSIVE ScanDays(_, _, _, _, _)
ScanDays(delta, start_local, alarm_time, allowed_days, tz) ==
    IF delta > 7
    THEN \* fallback: start date + 7 days at the alarm time
         ToUtc(Combine(DateOf(start_local) + 7, alarm_time), tz)
    ELSE LET candidate_date  == DateOf(start_local) + delta
             candidate_local == Combine(candidate_date, alarm_time)
         IN  IF Weekday(candidate_date) \notin allowed_days
             THEN ScanDays(delta + 1, start_local, alarm_time, allowed_days, tz)
             ELSE IF candidate_local > start_local
                  THEN ToUtc(candidate_local, tz)
                  ELSE ScanDays(delta + 1, start_local, alarm_time, allowed_days, tz)

\* the loop over range(0, 7): the eighth candidate day is not tried
RECURSIVE ReachesFallbackShort(_, _, _, _)
ReachesFallbackShort(delta, start_local, alarm_time, allowed_days) ==
    IF delta > 6 THEN TRUE
    ELSE IF /\ Weekday(DateOf(start_local) + delta) \in allowed_days
            /\ Combine(DateOf(start_local) + delta, alarm_time) > start_local
         THEN FALSE
         ELSE ReachesFallbackShort(delta + 1, start_local, alarm_time, allowed_days)

\* whether the loop "for delta in range(0, 8)", from delta on, ends without
\* returning, so that the statements after it (the fallback) are executed
RECURSIVE ReachesFallback(_, _, _, _)
ReachesFallback(delta, start_local, alarm_time, allowed_days) ==
    IF delta > 7 THEN TRUE
    ELSE IF /\ Weekday(DateOf(start_local) + delta) \in allowed_days
            /\ Combine(DateOf(start_local) + delta, alarm_time) > start_local
         THEN FALSE
         ELSE ReachesFallback(delta + 1, start_local, alarm_time, allowed_days)

compute_next_occurrence(alarm, now) ==
    LET tzr == _resolve_timezone(alarm)
    IN  IF tzr.raised
        THEN Raised
        ELSE LET tz          == tzr.value
                 start_local == ToLocal(StartUtc(alarm, now), tz)
             IN  Returned(ScanDays(0, start_local, alarm.schedule_time_local,
                                   AllowedDays(alarm), tz))

(***************************************************************************)
(* The recurrence rule, stated without the algorithm.                      *)
(***************************************************************************)
\* t is an occurrence of the alarm's rule: its local time of day is the
\* rule's local time and its local weekday is allowed
IsOccurrence(t, alarm) ==
    LET local == ToLocal(t, alarm.timezone)
    IN  /\ local % DayLen = alarm.schedule_time_local
        /\ Weekday(DateOf(local)) \in AllowedDays(alarm)

\* r is the smallest occurrence strictly after ref
IsNextAfter(r, ref, alarm) ==
    /\ r > ref
    /\ IsOccurrence(r, alarm)
    /\ \A t \in (ref + 1)..(r - 1) : ~IsOccurrence(t, alarm)

(***************************************************************************)
(* services/session_context/models.py                                      *)
(***************************************************************************)
DEFAULT_SESSION_TTL_SECONDS == 5

EmptyConfig == [mode |-> "", alarmId |-> "", userId |-> "", label |-> ""]

EmptyConversation == [id |-> None, last_used |-> None]

\* ModeSession.__post_init__: expires_at derived unless given
ModeSession(device_id, session_type, triggered_at, ttl_seconds, expires_at, session_config, conversation, is_snooze_follow_up) ==
    [device_id           |-> device_id,
     session_type        |-> session_type,
     triggered_at        |-> triggered_at,
     ttl_seconds         |-> ttl_seconds,
     expires_at          |-> IF expires_at = None /\ ttl_seconds # 0
                             THEN triggered_at + ttl_seconds
                             ELSE expires_at,
     session_config      |-> session_config,
     conversation        |-> conversation,
     is_snooze_follow_up |-> is_snooze_follow_up]

\* is_expired with the comparison turned round (expired only strictly after)
is_expired_strict(session, now) ==
    IF session.expires_at = None THEN FALSE ELSE now > session.expires_at

\* ModeSession.is_expired(now)
is_expired(session, now) ==
    IF session.expires_at = None THEN FALSE ELSE now >= session.expires_at

\* ttl_seconds_from_delta(ttl)
ttl_seconds_from_delta(ttl) ==
    IF ttl = None \/ ttl = 0 THEN DEFAULT_SESSION_TTL_SECONDS ELSE ttl

(***************************************************************************)
(* services/session_context/store.py : the sessionContexts collection, one *)
(* document per device id.  A field a document does not have is None / ""  *)
(* / the empty map.                                                        *)
(***************************************************************************)
NoDoc == [exists           |-> FALSE,
          sessionType      |-> "",
          triggeredAt      |-> None,
          ttlSeconds       |-> None,
          expiresAt        |-> None,
          sessionConfig    |-> EmptyConfig,
          conversation     |-> EmptyConversation,
          isSnoozeFollowUp |-> FALSE]

\* document.set(map, merge=True) on a map field: keys of the new map
\* overwrite, the other keys stay; an empty new map replaces the field
MergeConfig(old, new) ==
    IF new = EmptyConfig THEN EmptyConfig
    ELSE [k \in DOMAIN old \cup DOMAIN new |->
             IF k \notin DOMAIN new THEN old[k]
             ELSE IF new[k] = "" /\ k \in DOMAIN old THEN old[k]
             ELSE new[k]]

MergeConversation(old, new) ==
    IF new = EmptyConversation THEN EmptyConversation
    ELSE [k \in DOMAIN old |-> IF new[k] = None THEN old[k] ELSE new[k]]

\* create_session that leaves a document already in the store as it is
create_session_if_absent(store, device_id, session_type, session_config, ttl, triggered_at, wall) ==
    LET at      == IF triggered_at = None THEN wall ELSE triggered_at
        session == ModeSession(device_id, session_type, at,
                               ttl_seconds_from_delta(ttl), None,
                               session_config, EmptyConversation, FALSE)
        doc     == [exists           |-> TRUE,
                    sessionType      |-> session.session_type,
                    triggeredAt      |-> session.triggered_at,
                    ttlSeconds       |-> session.ttl_seconds,
                    expiresAt        |-> session.expires_at,
                    sessionConfig    |-> session.session_config,
                    conversation     |-> session.conversation,
                    isSnoozeFollowUp |-> session.is_snooze_follow_up]
    IN  [store   |-> IF store[device_id].exists THEN store
                     ELSE [store EXCEPT ![device_id] = doc],
         session |-> session]

\* SessionContextStore.create_session; triggered_at None means "now" (wall)
create_session(store, device_id, session_type, session_config, ttl, triggered_at, wall) ==
    LET at      == IF triggered_at = None THEN wall ELSE triggered_at
        session == ModeSession(device_id, session_type, at,
                               ttl_seconds_from_delta(ttl), None,
                               session_config, EmptyConversation, FALSE)
        old     == store[device_id]
        doc     == [exists           |-> TRUE,
                    sessionType      |-> session.session_type,
                    triggeredAt      |-> session.triggered_at,
                    ttlSeconds       |-> session.ttl_seconds,
                    expiresAt        |-> session.expires_at,
                    sessionConfig    |-> MergeConfig(old.sessionConfig,
                                                     session.session_config),
                    conversation     |-> MergeConversation(old.conversation,
                                                           session.conversation),
                    isSnoozeFollowUp |-> session.is_snooze_follow_up]
    IN  [store   |-> [store EXCEPT ![device_id] = doc],
         session |-> session]

\* SessionContextStore.delete_session
delete_session(store, device_id) == [store EXCEPT ![device_id] = NoDoc]

\* SessionContextStore._hydrate_session; wall is datetime.now()
_hydrate_session(device_id, payload, wall) ==
    ModeSession(device_id,
                IF payload.sessionType = "" THEN "alarm" ELSE payload.sessionType,
                IF payload.triggeredAt = None THEN wall ELSE payload.triggeredAt,
                IF payload.ttlSeconds = None \/ payload.ttlSeconds = 0
                    THEN DEFAULT_SESSION_TTL_SECONDS ELSE payload.ttlSeconds,
                payload.expiresAt,
                payload.sessionConfig,
                payload.conversation,
                payload.isSnoozeFollowUp)

\* SessionContextStore.get_session(device_id, now) with delete_if_expired
\* left at its default; failing names the store calls that raise.  The
\* result is <<>> for None and <<session>> otherwise.
get_session(store, device_id, now, wall, failing) ==
    IF <<"get", device_id>> \in failing
    THEN \* the read raised: logged, None returned
         [store |-> store, result |-> <<>>, raised |-> FALSE]
    ELSE IF ~store[device_id].exists
    THEN [store |-> store, result |-> <<>>, raised |-> FALSE]
    ELSE LET session == _hydrate_session(device_id, store[device_id], wall)
         IN  IF is_expired(session, IF now = None THEN wall ELSE now)
             THEN IF <<"delete", device_id>> \in failing
                  THEN \* delete_session raised inside get_session
                       [store |-> store, result |-> <<>>, raised |-> TRUE]
                  ELSE [store  |-> delete_session(store, device_id),
                        result |-> <<>>, raised |-> FALSE]
             ELSE [store |-> store, result |-> <<session>>, raised |-> FALSE]

\* the keyword arguments of update_session: conversation is "unset" (not
\* passed), "delete" (None) or "set"
NoPatch == [has_config |-> FALSE, session_config |-> EmptyConfig,
            conv_op |-> "unset", conversation |-> EmptyConversation,
            has_snooze |-> FALSE, is_snooze_follow_up |-> FALSE]

ConversationPatch(conv) ==
    [NoPatch EXCEPT !.conv_op = IF conv = EmptyConversation THEN "delete" ELSE "set",
                    !.conversation = conv]

\* update_session writing with set(updates) without merge: the record is
\* replaced by the patch
update_session_overwrite(store, device_id, patch) ==
    IF ~patch.has_config /\ patch.conv_op = "unset" /\ ~patch.has_snooze
    THEN [store |-> store, wrote |-> FALSE]
    ELSE LET doc == [NoDoc EXCEPT
                       !.exists = TRUE,
                       !.sessionConfig = patch.session_config,
                       !.conversation = patch.conversation,
                       !.isSnoozeFollowUp = patch.is_snooze_follow_up]
         IN  [store |-> [store EXCEPT ![device_id] = doc], wrote |-> TRUE]

\* SessionContextStore.update_session
update_session(store, device_id, patch) ==
    IF ~patch.has_config /\ patch.conv_op = "unset" /\ ~patch.has_snooze
    THEN [store |-> store, wrote |-> FALSE]
    ELSE LET old == store[device_id]
             doc == [old EXCEPT
                       !.exists = TRUE,
                       !.sessionConfig =
                           IF patch.has_config
                           THEN MergeConfig(old.sessionConfig, patch.session_config)
                           ELSE old.sessionConfig,
                       !.conversation =
                           CASE patch.conv_op = "unset"  -> old.conversation
                             [] patch.conv_op = "delete" -> EmptyConversation
                             [] patch.conv_op = "set"    ->
                                  MergeConversation(old.conversation,
                                                    patch.conversation),
                       !.isSnoozeFollowUp =
                           IF patch.has_snooze THEN patch.is_snooze_follow_up
                           ELSE old.isSnoozeFollowUp]
         IN  [store |-> [store EXCEPT ![device_id] = doc], wrote |-> TRUE]

(***************************************************************************)
(* services/alarms/config.py, services/alarms/scheduler.py constants       *)
(***************************************************************************)
LOOKAHEAD == 2

SESSION_TTL == 5

SESSION_TYPE == "alarm"

Devices == {"d1", "d2"}

AlarmOrder == <<"a1", "a2">>

AlarmIds == {AlarmOrder[i] : i \in 1..Len(AlarmOrder)}

FailSets == {f \in SUBSET (({"get", "delete", "create"} \X Devices) \cup ({"mark"} \X AlarmIds)) : Cardinality(f) <= MaxFailures}

(***************************************************************************)
(* services/alarms/firestore_client.py                                     *)
(***************************************************************************)
\* the list comprehension over targets_payload stops at its first element
\* that cannot be built: "map" when every element can
FirstBadShape(targets) ==
    LET bad == {i \in 1..Len(targets) : targets[i].shape # "map"}
    IN  IF bad = {} THEN "map"
        ELSE targets[CHOOSE i \in bad : \A j \in bad : i <= j].shape

\* what the loop body of fetch_due_alarms does with one streamed document:
\* "skip" (continue), "raise" (an exception the body does not catch:
\* subscripting a non-map raises TypeError) or "ok" (appended)
TargetsOutcome(targets) ==
    IF targets = <<>> THEN "skip"
    ELSE CASE FirstBadShape(targets) = "map" -> "ok"
           [] FirstBadShape(targets) \in {"no_device_id", "no_mode", "device_not_string"} -> "skip"
           [] FirstBadShape(targets) = "not_a_map" -> "raise"

\* fetch_due_alarms with the upper bound of the window left out
fetch_all_alarms(alarmStore, now, lookahead) ==
    LET Due(id) == alarmStore[id].status = "on"
        ids == SelectSeq(AlarmOrder, Due)
        Kept(id) == TargetsOutcome(alarmStore[id].targets) = "ok"
        kept == SelectSeq(ids, Kept)
        raising == {i \in 1..Len(ids) : TargetsOutcome(alarmStore[ids[i]].targets) = "raise"}
    IN  [raised |-> raising # {},
         docs   |-> IF raising # {} THEN <<>>
                    ELSE [i \in 1..Len(kept) |-> alarmStore[kept[i]]]]

\* fetch_due_alarms: the query status == "on" and nextOccurrenceUTC <=
\* now + lookahead in stream order; documents without a usable targets
\* list skipped; raises when building a target raises something other than
\* KeyError or ValueError
fetch_due_alarms(alarmStore, now, lookahead) ==
    LET Due(id) == /\ alarmStore[id].status = "on"
                   /\ alarmStore[id].next_occurrence_utc # None
                   /\ alarmStore[id].next_occurrence_utc <= now + lookahead
        ids == SelectSeq(AlarmOrder, Due)
        Kept(id) == TargetsOutcome(alarmStore[id].targets) = "ok"
        kept == SelectSeq(ids, Kept)
        raising == {i \in 1..Len(ids) : TargetsOutcome(alarmStore[ids[i]].targets) = "raise"}
    IN  [raised |-> raising # {},
         docs   |-> IF raising # {} THEN <<>>
                    ELSE [i \in 1..Len(kept) |-> alarmStore[kept[i]]]]

\* mark_alarm_processed: one merge write of both fields
\* the two instants written to each other's field
mark_alarm_processed_swapped(alarmStore, alarm, last_processed, next_occurrence) ==
    [alarmStore EXCEPT ![alarm.alarm_id].last_processed_utc = next_occurrence,
                       ![alarm.alarm_id].next_occurrence_utc = last_processed]

mark_alarm_processed(alarmStore, alarm, last_processed, next_occurrence) ==
    [alarmStore EXCEPT ![alarm.alarm_id].last_processed_utc = last_processed,
                       ![alarm.alarm_id].next_occurrence_utc = next_occurrence]

(***************************************************************************)
(* services/alarms/scheduler.py : prepare_wake_requests                    *)
(***************************************************************************)
\* the device holds a lock that a read at now returns
LockHeld(store, device_id, now) ==
    /\ store[device_id].exists
    /\ LET session == _hydrate_session(device_id, store[device_id], now)
       IN  session.expires_at = None \/ now < session.expires_at

\* state threaded through one scan: the two stores, the wake requests so
\* far, whether the scan has raised, and the flag alarm_triggered
ScanStart(sessionStore, alarmStore) ==
    [sessions      |-> sessionStore,
     alarms        |-> alarmStore,
     wake_requests |-> <<>>,
     raised        |-> FALSE,
     triggered     |-> FALSE]

\* the duplicate-delivery guard without the comparison (never skips)
AlreadyProcessedNever(alarm) == FALSE

\* alarm.last_processed_utc and alarm.last_processed_utc >= alarm.next_occurrence_utc
AlreadyProcessed(alarm) ==
    /\ alarm.last_processed_utc # None
    /\ alarm.last_processed_utc >= alarm.next_occurrence_utc

\* the existing-session check ignoring what the read returned
ExistingSessionIgnored(result) == FALSE

\* "if existing:" on the result of get_session
ExistingSession(result) == result # <<>>

\* the body of "for target in alarm.targets" from target i on
RECURSIVE ScanTargets(_, _, _, _, _)
ScanTargets(alarm, i, acc, now, failing) ==
    IF acc.raised \/ i > Len(alarm.targets) THEN acc
    ELSE LET target == alarm.targets[i]
             dev    == target.device_id
         IN  IF dev = ""
             THEN ScanTargets(alarm, i + 1, acc, now, failing)
             ELSE
             LET got == get_session(acc.sessions, dev, now, now, failing)
             IN  IF got.raised
                 THEN [acc EXCEPT !.sessions = got.store, !.raised = TRUE]
                 ELSE IF ExistingSession(got.result)
                 THEN ScanTargets(alarm, i + 1, [acc EXCEPT !.sessions = got.store],
                                  now, failing)
                 ELSE IF <<"create", dev>> \in failing
                 THEN [acc EXCEPT !.sessions = got.store, !.raised = TRUE]
                 ELSE
                 LET session_config == [mode    |-> target.mode,
                                        alarmId |-> alarm.alarm_id,
                                        userId  |-> alarm.user_id,
                                        label   |-> alarm.label]
                     made == create_session(got.store, dev, SESSION_TYPE,
                                            session_config, SESSION_TTL, now, now)
                     request == [alarm_id   |-> alarm.alarm_id,
                                 device_id  |-> dev,
                                 mode       |-> target.mode,
                                 label      |-> alarm.label,
                                 occurrence |-> alarm.next_occurrence_utc,
                                 session    |-> made.session]
                 IN  ScanTargets(alarm, i + 1,
                                 [acc EXCEPT !.sessions = made.store,
                                             !.wake_requests = Append(@, request),
                                             !.triggered = TRUE],
                                 now, failing)

\* the advancement without its try/except: an error leaves the scan
AdvanceUncaught(alarm, acc, now, failing) ==
    IF acc.raised \/ ~acc.triggered THEN acc
    ELSE LET next_occurrence == compute_next_occurrence(alarm, now)
         IN  IF next_occurrence.raised \/ <<"mark", alarm.alarm_id>> \in failing
             THEN [acc EXCEPT !.raised = TRUE]
             ELSE [acc EXCEPT
                     !.alarms = mark_alarm_processed(acc.alarms, alarm,
                                                     alarm.next_occurrence_utc,
                                                     next_occurrence.value)]

\* "if alarm_triggered:" -- the advancement of one alarm, errors caught
Advance(alarm, acc, now, failing) ==
    IF acc.raised \/ ~acc.triggered THEN acc
    ELSE LET next_occurrence == compute_next_occurrence(alarm, now)
         IN  IF next_occurrence.raised \/ <<"mark", alarm.alarm_id>> \in failing
             THEN acc
             ELSE [acc EXCEPT
                     !.alarms = mark_alarm_processed(acc.alarms, alarm,
                                                     alarm.next_occurrence_utc,
                                                     next_occurrence.value)]

\* the body of "for alarm in alarms" from alarm i on
RECURSIVE ScanAlarms(_, _, _, _, _)
ScanAlarms(fetched, i, acc, now, failing) ==
    IF acc.raised \/ i > Len(fetched) THEN acc
    ELSE LET alarm == fetched[i]
         IN  IF alarm.next_occurrence_utc = None
             THEN ScanAlarms(fetched, i + 1, acc, now, failing)
             ELSE IF AlreadyProcessed(alarm)
             THEN ScanAlarms(fetched, i + 1, acc, now, failing)
             ELSE IF alarm.targets = <<>>
             THEN ScanAlarms(fetched, i + 1, acc, now, failing)
             ELSE LET after == ScanTargets(alarm, 1, [acc EXCEPT !.triggered = FALSE],
                                           now, failing)
                  IN  ScanAlarms(fetched, i + 1, Advance(alarm, after, now, failing),
                                 now, failing)

\* prepare_wake_requests(now, lookahead)
prepare_wake_requests(sessionStore, alarmStore, now, lookahead, failing) ==
    LET fetched == fetch_due_alarms(alarmStore, now, lookahead)
    IN  IF fetched.raised
        THEN [ScanStart(sessionStore, alarmStore) EXCEPT !.raised = TRUE]
        ELSE ScanAlarms(fetched.docs, 1, ScanStart(sessionStore, alarmStore),
                        now, failing)

\* what the caller of prepare_wake_requests receives: the list, or nothing
\* when the call raised
ReturnedRequests(out) == IF out.raised THEN <<>> ELSE out.wake_requests

(***************************************************************************)
(* services/alarms/cloud/functions.py : scan_due_alarms, _wake_device      *)
(***************************************************************************)
\* _resolve_alarm_endpoints: the configured endpoint pairs, in order
Endpoints == <<"e1", "e2">>

\* _wake_device with the flag overwritten by every endpoint's outcome
_wake_device_last(wake_request, delivered) ==
    <<Endpoints[Len(Endpoints)], wake_request.device_id>> \in delivered

\* _wake_device: publish through every endpoint, fired when one succeeded
_wake_device(wake_request, delivered) ==
    \E i \in 1..Len(Endpoints) : <<Endpoints[i], wake_request.device_id>> \in delivered

\* the calls of publish_ws_start made for a list of wake requests, in order
PublishAttempts(wake_requests) ==
    [k \in 1..(Len(wake_requests) * Len(Endpoints)) |->
        <<Endpoints[((k - 1) % Len(Endpoints)) + 1],
          wake_requests[((k - 1) \div Len(Endpoints)) + 1].device_id>>]

\* scan_due_alarms counting the requests instead of the successful publishes
scan_due_alarms_count_all(sessionStore, alarmStore, now, failing, delivered) ==
    LET out      == prepare_wake_requests(sessionStore, alarmStore, now, LOOKAHEAD, failing)
        requests == ReturnedRequests(out)
        results  == [i \in 1..Len(requests) |->
                        [alarmId  |-> requests[i].alarm_id,
                         label    |-> requests[i].label,
                         deviceId |-> requests[i].device_id,
                         mode     |-> requests[i].mode,
                         fired    |-> _wake_device(requests[i], delivered)]]
    IN  [sessions |-> out.sessions,
         alarms   |-> out.alarms,
         raised   |-> out.raised,
         wake_requests |-> requests,
         attempts |-> PublishAttempts(requests),
         response |-> [ok |-> TRUE, count |-> Len(requests),
                       triggered |-> Len(requests),
                       results |-> results]]

\* scan_due_alarms: the scan, then one _wake_device per wake request; the
\* exception of a scan that raised leaves the handler (no response)
scan_due_alarms(sessionStore, alarmStore, now, failing, delivered) ==
    LET out      == prepare_wake_requests(sessionStore, alarmStore, now, LOOKAHEAD, failing)
        requests == ReturnedRequests(out)
        results  == [i \in 1..Len(requests) |->
                        [alarmId  |-> requests[i].alarm_id,
                         label    |-> requests[i].label,
                         deviceId |-> requests[i].device_id,
                         mode     |-> requests[i].mode,
                         fired    |-> _wake_device(requests[i], delivered)]]
    IN  [sessions |-> out.sessions,
         alarms   |-> out.alarms,
         raised   |-> out.raised,
         wake_requests |-> requests,
         attempts |-> PublishAttempts(requests),
         response |-> [ok |-> TRUE, count |-> Len(requests),
                       triggered |-> Cardinality({i \in 1..Len(requests) : results[i].fired}),
                       results |-> results]]

(***************************************************************************)
(* core/utils/firestore_client.py : devices/{id}.conversation              *)
(***************************************************************************)
EmptyDeviceConv == [id |-> None, last_used |-> None, last_interaction_summary |-> ""]

\* get_conversation_state_for_device: the map if present and non-empty
get_conversation_state_for_device(store, device_id) ==
    IF store[device_id] = EmptyDeviceConv THEN <<>> ELSE <<store[device_id]>>

\* update_conversation_state_for_device: merge write of the keys given, or
\* removal of the map when none is given
update_conversation_state_for_device(store, device_id, conversation_id, last_used, summary) ==
    IF conversation_id = None /\ last_used = None /\ summary = ""
    THEN [store EXCEPT ![device_id] = EmptyDeviceConv]
    ELSE [store EXCEPT ![device_id] =
            [id        |-> IF conversation_id = None THEN @.id ELSE conversation_id,
             last_used |-> IF last_used = None THEN @.last_used ELSE last_used,
             last_interaction_summary |->
                 IF summary = "" THEN @.last_interaction_summary ELSE summary]]

(***************************************************************************)
(* core/connection.py : hydration, conversation binding, persist on close  *)
(***************************************************************************)
\* conversation_ttl_hours default
CONVERSATION_TTL == 6

\* MODE_CONFIG[mode].get("use_separate_conversation", False)
UseSeparateConversation(mode) == mode = "morning_alarm"

\* session_config.get("mode_config"), reduced to what it says about
\* use_separate_conversation: "absent" (no mode_config, or one without
\* the key), "true" or "false"
SessionModeConfig(session_config) ==
    IF "mode_config" \in DOMAIN session_config THEN session_config.mode_config ELSE "absent"

\* use_separate_conversation read from MODE_CONFIG alone
use_separate_conversation_default_only(session_config) ==
    UseSeparateConversation(session_config.mode)

\* _apply_mode_session_settings: MODE_CONFIG[mode] updated with the
\* mode_config of the session, then bool(config.get(
\* "use_separate_conversation", False)); a session without mode leaves
\* use_mode_conversation at False
use_separate_conversation(session_config) ==
    /\ session_config.mode # ""
    /\ IF SessionModeConfig(session_config) = "absent"
       THEN UseSeparateConversation(session_config.mode)
       ELSE SessionModeConfig(session_config) = "true"

\* the fields of a ConnectionHandler that bind it to a conversation;
\* has_mode_session is "self.mode_session is not None", bound names the
\* _ensure_..._conversation that ran on connect
ClosedConn == [open                    |-> FALSE,
               has_mode_session        |-> FALSE,
               use_mode_conversation   |-> FALSE,
               current_conversation_id |-> None,
               bound                   |-> "none"]

\* ConnectionHandler._device_conversation_expired
_device_conversation_expired(last_used, now) ==
    /\ last_used # None
    /\ CONVERSATION_TTL > 0
    /\ now - last_used > CONVERSATION_TTL

\* _hydrate_mode_session + _apply_mode_session_settings +
\* _initialize_conversation_binding of one connecting device that has an
\* LLM provider.  failing names the store calls of the lock read that
\* raise; new_conv is the id the provider hands out if a conversation has
\* to be created, create_ok whether it hands one out, store_ok whether the
\* writes of the device record succeed.
BindingResult(sessionStore, convStore, device_id, now, new_conv, failing, create_ok, store_ok) ==
    LET got      == get_session(sessionStore, device_id, None, now, failing)
        session  == got.result
        use_mode == session # <<>> /\ use_separate_conversation(session[1].session_config)
        conn     == [open |-> TRUE, has_mode_session |-> session # <<>>,
                     use_mode_conversation |-> use_mode,
                     current_conversation_id |-> None,
                     bound |-> IF use_mode /\ session # <<>> THEN "mode" ELSE "device"]
    IN  IF use_mode /\ session # <<>>
        THEN \* _ensure_mode_scoped_conversation
             IF session[1].conversation.id # None
             THEN [sessions |-> got.store, deviceConv |-> convStore, created |-> FALSE,
                   conn |-> [conn EXCEPT !.current_conversation_id = session[1].conversation.id]]
             ELSE IF ~create_ok
             THEN [sessions |-> got.store, deviceConv |-> convStore, created |-> FALSE,
                   conn |-> conn]
             ELSE LET conv == [id |-> new_conv, last_used |-> None]
                  IN  [sessions |-> update_session(got.store, device_id,
                                                   ConversationPatch(conv)).store,
                       deviceConv |-> convStore, created |-> TRUE,
                       conn |-> [conn EXCEPT !.current_conversation_id = new_conv]]
        ELSE \* _ensure_device_scoped_conversation
             LET state   == get_conversation_state_for_device(convStore, device_id)
                 expired == state # <<>> /\ _device_conversation_expired(state[1].last_used, now)
                 cleared == IF expired /\ store_ok
                            THEN update_conversation_state_for_device(
                                     convStore, device_id, None, None,
                                     state[1].last_interaction_summary)
                            ELSE convStore
                 conv_id == IF state = <<>> \/ expired THEN None ELSE state[1].id
             IN  IF conv_id # None
                 THEN [sessions |-> got.store, deviceConv |-> cleared, created |-> FALSE,
                       conn |-> [conn EXCEPT !.current_conversation_id = conv_id]]
                 ELSE IF ~create_ok
                 THEN [sessions |-> got.store, deviceConv |-> cleared, created |-> FALSE,
                       conn |-> conn]
                 ELSE IF ~store_ok
                 THEN [sessions |-> got.store, deviceConv |-> cleared, created |-> TRUE,
                       conn |-> conn]
                 ELSE [sessions |-> got.store,
                       deviceConv |-> update_conversation_state_for_device(
                                          cleared, device_id, new_conv, now, ""),
                       created |-> TRUE,
                       conn |-> [conn EXCEPT !.current_conversation_id = new_conv]]

\* _persist_conversation_state_before_close guarded by a re-read of the lock
PersistIfLocked(sessionStore, convStore, device_id, conn, now, summary) ==
    IF conn.current_conversation_id = None
    THEN [sessions |-> sessionStore, deviceConv |-> convStore]
    ELSE IF conn.use_mode_conversation /\ conn.has_mode_session
    THEN [sessions |->
            IF LET held == sessionStore[device_id].exists IN held
            THEN update_session(sessionStore, device_id,
                     ConversationPatch([id |-> conn.current_conversation_id,
                                        last_used |-> now])).store
            ELSE sessionStore,
          deviceConv |-> convStore]
    ELSE [sessions |-> sessionStore,
          deviceConv |-> update_conversation_state_for_device(
                             convStore, device_id, conn.current_conversation_id,
                             now, summary)]

\* _persist_conversation_state_before_close writing the device record
\* whatever the binding
PersistToDevice(sessionStore, convStore, device_id, conn, now, summary) ==
    IF conn.current_conversation_id = None
    THEN [sessions |-> sessionStore, deviceConv |-> convStore]
    ELSE [sessions |-> sessionStore,
          deviceConv |-> update_conversation_state_for_device(
                             convStore, device_id, conn.current_conversation_id,
                             now, summary)]

\* _persist_conversation_state_before_close
Persist(sessionStore, convStore, device_id, conn, now, summary) ==
    IF conn.current_conversation_id = None
    THEN [sessions |-> sessionStore, deviceConv |-> convStore]
    ELSE IF conn.use_mode_conversation /\ conn.has_mode_session
    THEN [sessions |-> update_session(sessionStore, device_id,
                           ConversationPatch([id |-> conn.current_conversation_id,
                                              last_used |-> now])).store,
          deviceConv |-> convStore]
    ELSE [sessions |-> sessionStore,
          deviceConv |-> update_conversation_state_for_device(
                             convStore, device_id, conn.current_conversation_id,
                             now, summary)]

(***************************************************************************)
(* The system: scans by the scheduler, device connections, dismissals and  *)
(* the passing of time.                                                    *)
(***************************************************************************)
\* the devices that open connections
ConnDevices == {"d1"}

\* two invocations of the scheduler that may overlap
ScanProcs == {"p1", "p2"}

\* the slots of the event loop that hold a follow-up timer coroutine
TimerIds == 1..MaxTimers

\* the worker threads of ThreadPoolExecutor(max_workers)
WorkerIds == 1..MaxWorkers

\* a slot without coroutine
NoTimer == [pc |-> "free", cancelled |-> FALSE]

\* no turn is being handled
NoTurn == [kind |-> "", query |-> "", is_user_input |-> FALSE]

Init ==
    /\ clock = 0
    /\ alarms = ([id \in AlarmIds |->
                    IF id = "a1"
                    THEN [alarm_id |-> "a1", user_id |-> "u1", label |-> "wake",
                          schedule_time_local |-> 4, days |-> {}, timezone |-> "East",
                          status |-> "on", next_occurrence_utc |-> 2, last_processed_utc |-> None,
                          targets |-> <<[device_id |-> "d1", mode |-> "morning_alarm", shape |-> "map"],
                                        [device_id |-> "d2", mode |-> "morning_alarm", shape |-> "map"]>>]
                    ELSE [alarm_id |-> "a2", user_id |-> "u2", label |-> "gym",
                          schedule_time_local |-> 1, days |-> {"Tue"}, timezone |-> "",
                          status |-> "on", next_occurrence_utc |-> DayLen - 1, last_processed_utc |-> None,
                          targets |-> <<[device_id |-> "d1", mode |-> "morning_alarm", shape |-> "map"]>>]])
    /\ sessions = [d \in Devices |-> NoDoc]
    /\ deviceConv = [d \in Devices |-> EmptyDeviceConv]
    /\ conns = [d \in Devices |-> ClosedConn]
    /\ convCounter = 0
    /\ wakeCount = <<>>
    /\ lastOp = ([kind |-> "init"])
    /\ calc = ([done |-> FALSE])
    /\ scanners = ([proc |-> [p \in ScanProcs |-> ([pc |-> "idle", now |-> None, docs |-> <<>>, ai |-> 1, ti |-> 0,
                                                    triggered |-> FALSE, requests |-> <<>>])],
                    last_writer |-> [d \in Devices |-> ([proc |-> "", now |-> None, alarm_id |-> ""])]])
    /\ followup = ([hydrated |-> FALSE, enabled |-> FALSE, count |-> 0,
                    user_has_responded |-> FALSE, task |-> 0,
                    timers |-> [t \in TimerIds |-> NoTimer],
                    llm_finish_task |-> TRUE, chat_pc |-> "idle", turn |-> NoTurn,
                    submitted |-> 0, queued |-> 0, tts_pending |-> FALSE,
                    closed |-> FALSE, executor |-> "running", submit_errors |-> 0,
                    workers |-> [w \in WorkerIds |-> ""], waiting |-> {}, greeted |-> FALSE])

\* one more wake request for an occurrence and device
RECURSIVE CountWakes(_, _, _)
CountWakes(counts, requests, i) ==
    IF i > Len(requests) THEN counts
    ELSE LET key == <<requests[i].alarm_id, requests[i].occurrence, requests[i].device_id>>
             n   == IF key \in DOMAIN counts THEN counts[key] ELSE 0
             m   == IF n < MaxWakeCount THEN n + 1 ELSE n
         IN  CountWakes([k \in DOMAIN counts \cup {key} |->
                            IF k = key THEN m ELSE counts[k]],
                        requests, i + 1)

FiredPairs(requests) ==
    {<<requests[i].alarm_id, requests[i].device_id>> : i \in 1..Len(requests)}

\* the wall clock advances
Tick ==
    /\ clock < MaxTime
    /\ clock' = clock + 1
    /\ lastOp' = [kind |-> "tick"]
    /\ UNCHANGED <<alarms, sessions, deviceConv, conns, convCounter, wakeCount, calc, scanners, followup>>

\* scan_due_alarms: one invocation of the scheduler at now = the wall clock
Scan(failing) ==
    LET out == prepare_wake_requests(sessions, alarms, clock, LOOKAHEAD, failing)
    IN  /\ sessions' = out.sessions
        /\ alarms' = out.alarms
        /\ wakeCount' = CountWakes(wakeCount, ReturnedRequests(out), 1)
        /\ lastOp' = [kind       |-> "scan",
                      clean      |-> failing = {},
                      raised     |-> out.raised,
                      fired      |-> FiredPairs(ReturnedRequests(out)),
                      follows    |-> lastOp.kind = "scan" /\ lastOp.clean /\ failing = {},
                      prev_fired |-> IF lastOp.kind = "scan" /\ lastOp.clean /\ failing = {}
                                     THEN lastOp.fired ELSE {}]
        /\ UNCHANGED <<clock, deviceConv, conns, convCounter, calc, scanners, followup>>

\* a device opens a connection while the lock read, the provider or the
\* device store may fail
ConnectWith(d, failing, create_ok, store_ok) ==
    /\ ~conns[d].open
    /\ \E out \in {BindingResult(sessions, deviceConv, d, clock, convCounter + 1, failing, create_ok, store_ok)} :
           /\ out.created => convCounter < MaxConvs
           /\ sessions' = out.sessions
           /\ deviceConv' = out.deviceConv
           /\ conns' = [conns EXCEPT ![d] = out.conn]
           /\ convCounter' = IF out.created THEN convCounter + 1 ELSE convCounter
           /\ lastOp' = [kind |-> "connect", failing |-> failing, store_ok |-> store_ok]
    /\ UNCHANGED <<clock, alarms, wakeCount, calc, scanners, followup>>

\* a device opens a connection and every call succeeds
Connect(d) == ConnectWith(d, {}, TRUE, TRUE)

\* the connection of a device closes
Close(d, summary) ==
    /\ conns[d].open
    /\ LET out == Persist(sessions, deviceConv, d, conns[d], clock, summary)
       IN  /\ sessions' = out.sessions
           /\ deviceConv' = out.deviceConv
    /\ conns' = [conns EXCEPT ![d] = ClosedConn]
    /\ lastOp' = [kind |-> "close"]
    /\ UNCHANGED <<clock, alarms, convCounter, wakeCount, calc, scanners, followup>>

\* explicit dismissal of a session: delete_session
Dismiss(d) ==
    /\ sessions[d].exists
    /\ sessions' = delete_session(sessions, d)
    /\ lastOp' = [kind |-> "dismiss"]
    /\ UNCHANGED <<clock, alarms, deviceConv, conns, convCounter, wakeCount, calc, scanners, followup>>

Next ==
    \/ Tick
    \/ \E failing \in FailSets : Scan(failing)
    \/ \E d \in Devices : Dismiss(d)

Spec == Init /\ [][Next]_vars

(***************************************************************************)
(* The life of a lock: scans whose store calls succeed, connections of a   *)
(* device that read and update its lock, dismissals, time.                 *)
(***************************************************************************)
NextLock ==
    \/ Tick
    \/ Scan({})
    \/ \E d \in ConnDevices : Connect(d)
    \/ \E d \in ConnDevices, summary \in {"", "s"} : Close(d, summary)
    \/ \E d \in ConnDevices : Dismiss(d)

SpecLock == Init /\ [][NextLock]_vars

(***************************************************************************)
(* The session store on its own: any caller creating, reading, updating    *)
(* and deleting the record of a device.                                    *)
(***************************************************************************)
AlarmConfig == [mode |-> "morning_alarm", alarmId |-> "a1", userId |-> "u1",
                label |-> "wake"]

StoreCreate(d, ttl) ==
    /\ sessions' = create_session(sessions, d, SESSION_TYPE, AlarmConfig, ttl,
                                  None, clock).store
    /\ lastOp' = [kind |-> "create", device_id |-> d, pre |-> sessions[d]]
    /\ UNCHANGED <<clock, alarms, deviceConv, conns, convCounter, wakeCount, calc, scanners, followup>>

StoreGet(d, now, failing) ==
    LET out == get_session(sessions, d, now, clock, failing)
    IN  /\ sessions' = out.store
        /\ lastOp' = [kind |-> "get", device_id |-> d, pre |-> sessions[d],
                      now |-> IF now = None THEN clock ELSE now,
                      failing |-> failing, result |-> out.result,
                      raised |-> out.raised]
        /\ UNCHANGED <<clock, alarms, deviceConv, conns, convCounter, wakeCount, calc, scanners, followup>>

StoreUpdate(d, patch) ==
    LET out == update_session(sessions, d, patch)
    IN  /\ sessions' = out.store
        /\ lastOp' = [kind |-> "update", device_id |-> d, pre |-> sessions[d],
                      patch |-> patch, wrote |-> out.wrote]
        /\ UNCHANGED <<clock, alarms, deviceConv, conns, convCounter, wakeCount, calc, scanners, followup>>

StoreDelete(d) ==
    /\ sessions' = delete_session(sessions, d)
    /\ lastOp' = [kind |-> "delete", device_id |-> d, pre |-> sessions[d]]
    /\ UNCHANGED <<clock, alarms, deviceConv, conns, convCounter, wakeCount, calc, scanners, followup>>

NextStore ==
    \/ Tick
    \/ \E d \in ConnDevices, ttl \in {None, 1, SESSION_TTL} : StoreCreate(d, ttl)
    \/ \E d \in ConnDevices, now \in {None} \cup (0..MaxTime) :
          \E failing \in {{}, {<<"get", d>>}, {<<"delete", d>>}} : StoreGet(d, now, failing)
    \/ \E d \in ConnDevices, patch \in ({NoPatch,
                                         [NoPatch EXCEPT !.has_config = TRUE,
                                                         !.session_config = [EmptyConfig EXCEPT !.mode = "bedtime"]],
                                         ConversationPatch([id |-> 1, last_used |-> None]),
                                         ConversationPatch([id |-> 2, last_used |-> 0]),
                                         ConversationPatch(EmptyConversation),
                                         [NoPatch EXCEPT !.has_snooze = TRUE, !.is_snooze_follow_up = TRUE],
                                         [ConversationPatch([id |-> 1, last_used |-> None])
                                            EXCEPT !.has_snooze = TRUE, !.is_snooze_follow_up = FALSE]}) : StoreUpdate(d, patch)
    \/ \E d \in ConnDevices : StoreDelete(d)

SpecStore == Init /\ [][NextStore]_vars

(***************************************************************************)
(* The conversation binding of a connection: the lock and the device       *)
(* record as the scheduler and earlier connections left them, then         *)
(* connections that bind and close, dismissals and time.                   *)
(***************************************************************************)
\* no lock, or a lock created at instant 0 that holds a conversation (11)
\* or not; its session_config has no mode, the mode of MODE_CONFIG or a
\* mode MODE_CONFIG does not know, without mode_config or with a
\* mode_config that sets use_separate_conversation
BindLocks ==
    LET configs == {[AlarmConfig EXCEPT !.mode = mode] : mode \in {"", "morning_alarm", "bedtime"}}
                   \cup {[mode |-> mode, alarmId |-> AlarmConfig.alarmId, userId |-> AlarmConfig.userId, label |-> AlarmConfig.label, mode_config |-> flag] :
                            mode \in {"", "morning_alarm", "bedtime"}, flag \in {"true", "false"}}
    IN  {NoDoc} \cup
        {[create_session([d \in Devices |-> NoDoc], "d1", SESSION_TYPE, cfg, SESSION_TTL, 0, 0).store["d1"] EXCEPT !.conversation = conv] :
            cfg \in configs, conv \in {EmptyConversation, [id |-> 11, last_used |-> 0]}}

\* the lock and the device record before the first connection: no device
\* conversation, or one (12) last used at instant 0
BindSeed(lock, conv) ==
    /\ lastOp.kind = "init"
    /\ sessions' = [sessions EXCEPT !["d1"] = lock]
    /\ deviceConv' = [deviceConv EXCEPT !["d1"] = conv]
    /\ lastOp' = [kind |-> "seed"]
    /\ UNCHANGED <<clock, alarms, conns, convCounter, wakeCount, calc, scanners, followup>>

NextBinding ==
    \/ \E lock \in BindLocks, conv \in {EmptyDeviceConv, [id |-> 12, last_used |-> 0, last_interaction_summary |-> "s"]} :
          BindSeed(lock, conv)
    \/ Tick
    \/ \E d \in ConnDevices, failing \in {{}, {<<"get", "d1">>}, {<<"delete", "d1">>}}, create_ok \in BOOLEAN, store_ok \in BOOLEAN :
          ConnectWith(d, failing, create_ok, store_ok)
    \/ \E d \in ConnDevices, summary \in {"", "s"} : Close(d, summary)
    \/ \E d \in ConnDevices : Dismiss(d)

SpecBinding == Init /\ [][NextBinding]_vars

(***************************************************************************)
(* Two invocations of prepare_wake_requests that overlap, one step per     *)
(* store call: the query of fetch_due_alarms, the read and the delete of   *)
(* get_session, the write of create_session, the write of                  *)
(* mark_alarm_processed.  What lies between two store calls is local to    *)
(* the invocation and runs with the call before it.                        *)
(***************************************************************************)
\* the control of prepare_wake_requests from (ai, ti) up to its next store
\* call: ti = 0 is the head of "for alarm in alarms", ti past the targets
\* is "if alarm_triggered:"
RECURSIVE NextStoreCall(_)
NextStoreCall(sc) ==
    IF sc.ai > Len(sc.docs) THEN [sc EXCEPT !.pc = "done"]
    ELSE LET alarm == sc.docs[sc.ai]
         IN  IF sc.ti = 0
             THEN IF \/ alarm.next_occurrence_utc = None
                     \/ AlreadyProcessed(alarm)
                     \/ alarm.targets = <<>>
                  THEN NextStoreCall([sc EXCEPT !.ai = @ + 1])
                  ELSE NextStoreCall([sc EXCEPT !.ti = 1, !.triggered = FALSE])
             ELSE IF sc.ti > Len(alarm.targets)
             THEN IF sc.triggered
                  THEN [sc EXCEPT !.pc = "mark"]
                  ELSE NextStoreCall([sc EXCEPT !.ai = @ + 1, !.ti = 0])
             ELSE IF alarm.targets[sc.ti].device_id = ""
             THEN NextStoreCall([sc EXCEPT !.ti = @ + 1])
             ELSE [sc EXCEPT !.pc = "read"]

\* the alarm and the target an invocation is working on
RaceAlarm(p) == scanners.proc[p].docs[scanners.proc[p].ai]
RaceTarget(p) == RaceAlarm(p).targets[scanners.proc[p].ti]

\* prepare_wake_requests is called: fetch_due_alarms at now = the wall clock
RaceFetch(p) ==
    /\ scanners.proc[p].pc = "idle"
    /\ LET fetched == fetch_due_alarms(alarms, clock, LOOKAHEAD)
           sc == [scanners.proc[p] EXCEPT !.now = clock, !.docs = fetched.docs,
                                          !.ai = 1, !.ti = 0]
       IN  scanners' = [scanners EXCEPT !.proc[p] =
                           IF fetched.raised THEN [sc EXCEPT !.pc = "done"]
                           ELSE NextStoreCall(sc)]
    /\ lastOp' = [kind |-> "race"]
    /\ UNCHANGED <<clock, alarms, sessions, deviceConv, conns, convCounter, wakeCount, calc, followup>>

\* get_session: the read of the device's document and what follows from it
\* without another store call
RaceRead(p) ==
    /\ scanners.proc[p].pc = "read"
    /\ LET sc  == scanners.proc[p]
           dev == RaceTarget(p).device_id
           doc == sessions[dev]
       IN  scanners' = [scanners EXCEPT !.proc[p] =
               IF ~doc.exists THEN [sc EXCEPT !.pc = "create"]
               ELSE IF is_expired(_hydrate_session(dev, doc, sc.now), sc.now)
               THEN [sc EXCEPT !.pc = "delete"]
               ELSE NextStoreCall([sc EXCEPT !.ti = @ + 1])]
    /\ lastOp' = [kind |-> "race"]
    /\ UNCHANGED <<clock, alarms, sessions, deviceConv, conns, convCounter, wakeCount, calc, followup>>

\* get_session: delete_session of the document that was read as expired
RaceDelete(p) ==
    /\ scanners.proc[p].pc = "delete"
    /\ sessions' = delete_session(sessions, RaceTarget(p).device_id)
    /\ scanners' = [scanners EXCEPT !.proc[p].pc = "create"]
    /\ lastOp' = [kind |-> "race"]
    /\ UNCHANGED <<clock, alarms, deviceConv, conns, convCounter, wakeCount, calc, followup>>

\* create_session and the append of the wake request
RaceCreate(p) ==
    /\ scanners.proc[p].pc = "create"
    /\ LET sc     == scanners.proc[p]
           alarm  == RaceAlarm(p)
           target == RaceTarget(p)
           dev    == target.device_id
           session_config == [mode    |-> target.mode,
                              alarmId |-> alarm.alarm_id,
                              userId  |-> alarm.user_id,
                              label   |-> alarm.label]
           made == create_session(sessions, dev, SESSION_TYPE, session_config,
                                  SESSION_TTL, sc.now, clock)
           request == [alarm_id   |-> alarm.alarm_id,
                       device_id  |-> dev,
                       mode       |-> target.mode,
                       label      |-> alarm.label,
                       occurrence |-> alarm.next_occurrence_utc,
                       session    |-> made.session]
       IN  /\ sessions' = made.store
           /\ scanners' = [scanners EXCEPT
                   !.proc[p] = NextStoreCall([sc EXCEPT !.requests = Append(@, request),
                                                        !.triggered = TRUE,
                                                        !.ti = @ + 1]),
                   !.last_writer[dev] = [proc |-> p, now |-> sc.now,
                                         alarm_id |-> alarm.alarm_id]]
    /\ lastOp' = [kind |-> "race"]
    /\ UNCHANGED <<clock, alarms, deviceConv, conns, convCounter, wakeCount, calc, followup>>

\* "if alarm_triggered:" -- compute_next_occurrence and mark_alarm_processed
RaceMark(p) ==
    /\ scanners.proc[p].pc = "mark"
    /\ LET sc    == scanners.proc[p]
           alarm == RaceAlarm(p)
           next_occurrence == compute_next_occurrence(alarm, sc.now)
       IN  /\ alarms' = IF next_occurrence.raised THEN alarms
                        ELSE mark_alarm_processed(alarms, alarm, alarm.next_occurrence_utc,
                                                  next_occurrence.value)
           /\ scanners' = [scanners EXCEPT !.proc[p] =
                              NextStoreCall([sc EXCEPT !.ai = @ + 1, !.ti = 0])]
    /\ lastOp' = [kind |-> "race"]
    /\ UNCHANGED <<clock, sessions, deviceConv, conns, convCounter, wakeCount, calc, followup>>

NextRace ==
    \/ Tick
    \/ \E p \in ScanProcs : RaceFetch(p)
    \/ \E p \in ScanProcs : RaceRead(p)
    \/ \E p \in ScanProcs : RaceDelete(p)
    \/ \E p \in ScanProcs : RaceCreate(p)
    \/ \E p \in ScanProcs : RaceMark(p)

SpecRace == Init /\ [][NextRace]_vars

(***************************************************************************)
(* core/connection.py : the follow-up timer of one connection.  The turn   *)
(* thread (chat, run by the executor) and the timer coroutines (run by the *)
(* event loop) share the latch user_has_responded, the timer handle, the   *)
(* follow-up count and llm_finish_task; each step below is one access to   *)
(* them, in the order of the code.                                         *)
(***************************************************************************)
\* followup_task.done(): the future of run_coroutine_threadsafe is done once
\* the coroutine has returned or cancel() was called on the future
TaskDone(f, t) == f.timers[t].pc = "free" \/ f.timers[t].cancelled

\* "if self.followup_task and not self.followup_task.done(): cancel()":
\* the coroutine receives CancelledError at its next await
CancelPending(f) ==
    IF f.task # 0 /\ ~TaskDone(f, f.task)
    THEN [f EXCEPT !.timers[f.task].cancelled = TRUE]
    ELSE f

\* FollowupState.reset()
reset(f) ==
    [CancelPending(f) EXCEPT !.task = 0, !.count = 0,
                             !.user_has_responded = FALSE, !.enabled = FALSE]

\* _apply_mode_session_settings: reset, then followup_enabled from the
\* configuration of the session's mode
_apply_mode_session_settings(f, followup_enabled) ==
    [reset(f) EXCEPT !.enabled = followup_enabled]

\* _hydrate_mode_session, once, when the connection starts
Hydrate(followup_enabled) ==
    /\ ~followup.hydrated
    /\ followup' = [_apply_mode_session_settings(followup, followup_enabled)
                       EXCEPT !.hydrated = TRUE]
    /\ UNCHANGED <<clock, alarms, sessions, deviceConv, conns, convCounter, wakeCount, lastOp, calc, scanners>>

\* the turns handed to chat: a user turn (is_user_input left at its default,
\* the transcript may be empty), the server greeting, the follow-up turn, the
\* two continuations of _handle_function_result, chat_and_close
Turns ==
    {[kind |-> "user", query |-> q, is_user_input |-> TRUE] : q \in {"", "hi"}}
    \cup {[kind |-> "greeting", query |-> "", is_user_input |-> FALSE],
          [kind |-> "followup", query |-> "[No response from user]", is_user_input |-> FALSE],
          [kind |-> "tool_result", query |-> "", is_user_input |-> FALSE],
          [kind |-> "tool_result", query |-> "result", is_user_input |-> FALSE],
          [kind |-> "chat_and_close", query |-> "bye", is_user_input |-> FALSE]}

\* the latch condition without the flag: any turn with text
SetsLatchAnyText(query, is_user_input) == query # ""

\* "if query and is_user_input:"
SetsLatch(query, is_user_input) == query # "" /\ is_user_input

\* chat is entered: llm_finish_task = False.  A follow-up turn is one the
\* timer has submitted.
ChatBegin(turn) ==
    /\ followup.hydrated
    /\ followup.chat_pc = "idle"
    /\ turn.kind = "followup" => followup.queued > 0
    /\ followup.closed => turn.kind \in {"followup", "tool_result"}
    /\ followup' = [followup EXCEPT
                       !.chat_pc = "latch", !.turn = turn,
                       !.llm_finish_task = FALSE,
                       !.queued = IF turn.kind = "followup" THEN @ - 1 ELSE @]
    /\ UNCHANGED <<clock, alarms, sessions, deviceConv, conns, convCounter, wakeCount, lastOp, calc, scanners>>

\* chat: the latch
ChatLatch ==
    /\ followup.chat_pc = "latch"
    /\ followup' = IF SetsLatch(followup.turn.query, followup.turn.is_user_input)
                   THEN [followup EXCEPT !.user_has_responded = TRUE, !.chat_pc = "cancel"]
                   ELSE [followup EXCEPT !.chat_pc = "llm"]
    /\ UNCHANGED <<clock, alarms, sessions, deviceConv, conns, convCounter, wakeCount, lastOp, calc, scanners>>

\* chat: the cancellation of the pending timer
ChatCancel ==
    /\ followup.chat_pc = "cancel"
    /\ followup' = [CancelPending(followup) EXCEPT !.chat_pc = "llm"]
    /\ UNCHANGED <<clock, alarms, sessions, deviceConv, conns, convCounter, wakeCount, lastOp, calc, scanners>>

\* chat: the end of the turn, llm_finish_task = True
ChatFinish ==
    /\ followup.chat_pc = "llm"
    /\ followup' = [followup EXCEPT !.chat_pc = "idle", !.turn = NoTurn,
                                    !.llm_finish_task = TRUE, !.tts_pending = TRUE]
    /\ UNCHANGED <<clock, alarms, sessions, deviceConv, conns, convCounter, wakeCount, lastOp, calc, scanners>>

\* chat: building the input or the LLM call raises; "except Exception"
\* logs and returns None, and llm_finish_task is left as chat has set it
ChatRaise ==
    /\ followup.chat_pc = "llm"
    /\ followup' = [followup EXCEPT !.chat_pc = "idle", !.turn = NoTurn]
    /\ UNCHANGED <<clock, alarms, sessions, deviceConv, conns, convCounter, wakeCount, lastOp, calc, scanners>>

\* the condition under which a completed assistant turn schedules a
\* follow-up
ShouldScheduleFollowup(f) ==
    f.enabled /\ ~f.user_has_responded /\ f.count < FollowupMax

\* _schedule_followup: the pending timer is cancelled and a new coroutine
\* is handed to the event loop in slot t
_schedule_followup(f, t) ==
    [CancelPending(f) EXCEPT !.task = t,
                             !.timers[t] = [pc |-> "sleep", cancelled |-> FALSE]]

\* the speech of an assistant turn has stopped (reported over the open
\* connection)
TtsStop ==
    /\ followup.tts_pending
    /\ ~followup.closed
    /\ IF ShouldScheduleFollowup(followup)
       THEN \E t \in TimerIds :
              /\ followup.timers[t].pc = "free"
              /\ followup' = [_schedule_followup(followup, t) EXCEPT !.tts_pending = FALSE]
       ELSE followup' = [followup EXCEPT !.tts_pending = FALSE]
    /\ UNCHANGED <<clock, alarms, sessions, deviceConv, conns, convCounter, wakeCount, lastOp, calc, scanners>>

\* _followup_trigger: "await asyncio.sleep(0.5)" returns, or raises
\* CancelledError when the task was cancelled
TimerWake(t) ==
    /\ followup.timers[t].pc = "sleep"
    /\ followup' = IF followup.timers[t].cancelled
                   THEN [followup EXCEPT !.timers[t] = NoTimer]
                   ELSE [followup EXCEPT !.timers[t].pc = "woke"]
    /\ UNCHANGED <<clock, alarms, sessions, deviceConv, conns, convCounter, wakeCount, lastOp, calc, scanners>>

\* _followup_trigger: the checks of the latch and of client_is_speaking
TimerCheckLatch(t, client_is_speaking) ==
    /\ followup.timers[t].pc = "woke"
    /\ followup' = IF followup.user_has_responded \/ client_is_speaking
                   THEN [followup EXCEPT !.timers[t] = NoTimer]
                   ELSE [followup EXCEPT !.timers[t].pc = "checked"]
    /\ UNCHANGED <<clock, alarms, sessions, deviceConv, conns, convCounter, wakeCount, lastOp, calc, scanners>>

\* _followup_trigger: the check of llm_finish_task and of the silence
TimerCheckIdle(t, silence_reached) ==
    /\ followup.timers[t].pc = "checked"
    /\ followup' = IF ~followup.llm_finish_task \/ ~silence_reached
                   THEN [followup EXCEPT !.timers[t].pc = "sleep"]
                   ELSE [followup EXCEPT !.timers[t].pc = "fire"]
    /\ UNCHANGED <<clock, alarms, sessions, deviceConv, conns, convCounter, wakeCount, lastOp, calc, scanners>>

\* _followup_trigger: followup_count += 1 and the synthetic turn submitted;
\* self.executor.submit raises when close has set the executor to None, and
\* the exception, which is not CancelledError, ends the coroutine
TimerFire(t) ==
    /\ followup.timers[t].pc = "fire"
    /\ followup' = IF followup.executor = "none"
                   THEN [followup EXCEPT !.count = @ + 1, !.submit_errors = @ + 1,
                                         !.timers[t] = NoTimer]
                   ELSE [followup EXCEPT !.count = @ + 1, !.submitted = @ + 1,
                                         !.queued = @ + 1, !.timers[t] = NoTimer]
    /\ UNCHANGED <<clock, alarms, sessions, deviceConv, conns, convCounter, wakeCount, lastOp, calc, scanners>>

\* close(): the timeout task is cancelled, stop_event set, the queues
\* cleared, the websocket and the TTS closed, the executor shut down
\* without waiting and released.  The follow-up state is not touched.
CloseConnection ==
    /\ followup.hydrated
    /\ ~followup.closed
    /\ followup' = [followup EXCEPT !.closed = TRUE, !.executor = "none"]
    /\ UNCHANGED <<clock, alarms, sessions, deviceConv, conns, convCounter, wakeCount, lastOp, calc, scanners>>

NextFollowup ==
    \/ \E e \in BOOLEAN : Hydrate(e)
    \/ CloseConnection
    \/ \E turn \in Turns : ChatBegin(turn)
    \/ ChatLatch
    \/ ChatCancel
    \/ ChatFinish
    \/ ChatRaise
    \/ TtsStop
    \/ \E t \in TimerIds : TimerWake(t)
    \/ \E t \in TimerIds : \E b \in BOOLEAN : TimerCheckLatch(t, b)
    \/ \E t \in TimerIds : \E b \in BOOLEAN : TimerCheckIdle(t, b)
    \/ \E t \in TimerIds : TimerFire(t)

SpecFollowup == Init /\ [][NextFollowup]_vars

\* what the server does by itself: the executor runs a submitted follow-up
\* turn and carries a chat call to its end, the speech of a turn stops, the
\* event loop runs the timer coroutines, and the silence of a polling timer
\* eventually reaches its delay.  Turns of the user, the state of the
\* client and the close of the connection come from outside.
SpecFollowupFair ==
    /\ Init /\ [][NextFollowup]_vars
    /\ WF_vars(\E e \in BOOLEAN : Hydrate(e))
    /\ WF_vars(\E turn \in Turns : turn.kind = "followup" /\ ChatBegin(turn))
    /\ WF_vars(ChatLatch)
    /\ WF_vars(ChatCancel)
    /\ WF_vars(ChatFinish)
    /\ WF_vars(TtsStop)
    /\ \A t \in TimerIds :
          /\ WF_vars(TimerWake(t))
          /\ WF_vars(\E b \in BOOLEAN : TimerCheckLatch(t, b))
          /\ WF_vars(\E b \in BOOLEAN : TimerCheckIdle(t, b))
          /\ SF_vars(TimerCheckIdle(t, TRUE))
          /\ WF_vars(TimerFire(t))

(***************************************************************************)
(* core/connection.py : _apply_mode_session_settings as a function of the  *)
(* state it finds, the hydrated session and the mode configurations.  A    *)
(* configuration is a function from the keys it has to their values.       *)
(***************************************************************************)
\* services/alarms/config.py; a mode without entry has the empty
\* configuration
MODE_CONFIG(mode) ==
    IF mode = "morning_alarm"
    THEN [instructions_file |-> "morning_alarm.txt", server_initiate_chat |-> TRUE,
          followup_enabled |-> TRUE, followup_delay |-> 10, followup_max |-> 5,
          use_separate_conversation |-> TRUE]
    ELSE <<>>

\* config.update(...) with the arguments the wrong way round: the static
\* configuration overrides the session's
ConfigUpdateStaticWins(config, other) ==
    [k \in DOMAIN config \cup DOMAIN other |-> IF k \in DOMAIN config THEN config[k] ELSE other[k]]

\* config.update(other)
ConfigUpdate(config, other) ==
    [k \in DOMAIN config \cup DOMAIN other |-> IF k \in DOMAIN other THEN other[k] ELSE config[k]]

\* _apply_mode_session_settings: the mode state and the follow-up settings
\* after the two resets; session is <<>> for None and <<session_config>>
\* otherwise, readable the set of instruction files that can be opened
ModeSettings(session, readable) ==
    LET plain  == [active_mode |-> "", instructions |-> "", server_initiate_chat |-> FALSE,
                   greeting_scheduled |-> FALSE, followup_enabled |-> FALSE,
                   followup_delay |-> 10, followup_max |-> 5]
        mode   == IF session = <<>> THEN "" ELSE session[1].mode
        config == ConfigUpdate(MODE_CONFIG(mode), session[1].mode_config)
        Get(key, default) == IF key \in DOMAIN config THEN config[key] ELSE default
    IN  IF mode = "" THEN plain
        ELSE [plain EXCEPT
                !.active_mode = mode,
                !.instructions = IF Get("instructions_file", "") \in readable
                                 THEN Get("instructions_file", "")
                                 ELSE Get("instructions", ""),
                !.server_initiate_chat = Get("server_initiate_chat", FALSE),
                !.followup_enabled = Get("followup_enabled", FALSE),
                !.followup_delay = Get("followup_delay", 10),
                !.followup_max = Get("followup_max", 5)]

\* _hydrate_mode_session on a connection in any follow-up state: count and
\* latch set or not, follow-ups enabled or not, a timer pending or not.
\* The text of an instruction file is written as the name of the file.
HydrateSession(count, responded, enabled, pending, session, readable) ==
    /\ lastOp.kind = "init"
    /\ LET pre == [followup EXCEPT !.count = count, !.user_has_responded = responded,
                                   !.enabled = enabled,
                                   !.task = IF pending THEN 1 ELSE 0,
                                   !.timers[1].pc = IF pending THEN "sleep" ELSE "free"]
           out == ModeSettings(session, readable)
       IN  /\ followup' = [reset(pre) EXCEPT !.enabled = out.followup_enabled, !.hydrated = TRUE]
           /\ lastOp' = [kind |-> "hydrate", pre |-> pre, session |-> session,
                         readable |-> readable, settings |-> out]
    /\ UNCHANGED <<clock, alarms, sessions, deviceConv, conns, convCounter, wakeCount, calc, scanners>>

NextHydrate ==
    \E count \in 0..FollowupMax, responded \in BOOLEAN, enabled \in BOOLEAN, pending \in BOOLEAN,
       session \in {<<>>} \cup
                   {<<[mode |-> mode, mode_config |-> override]>> :
                       mode \in {"", "morning_alarm", "bedtime"},
                       override \in {<<>>, [followup_max |-> 2], [instructions |-> "WAKE UP"],
                                     [followup_enabled |-> FALSE, followup_delay |-> 5],
                                     [instructions_file |-> "other.txt", server_initiate_chat |-> FALSE],
                                     [instructions |-> "WAKE UP", server_initiate_chat |-> TRUE, followup_enabled |-> TRUE]}},
       readable \in SUBSET {"morning_alarm.txt", "other.txt"} :
        HydrateSession(count, responded, enabled, pending, session, readable)

SpecHydrate == Init /\ [][NextHydrate]_vars

(***************************************************************************)
(* core/connection.py, core/handle/helloHandle.py : the turns of one       *)
(* connection on the worker threads of its executor.  The timer coroutines *)
(* are those of the follow-up timer above; a chat call is one step at its  *)
(* entry (lines 1768-1776) and one at its end (line 1994).                 *)
(***************************************************************************)
\* _trigger_server_greeting: the greeting is submitted when
\* llm_finish_task is true, and dropped otherwise
GreetingTrigger ==
    /\ followup.hydrated /\ ~followup.closed /\ ~followup.greeted
    /\ followup' = IF followup.llm_finish_task
                   THEN [followup EXCEPT !.greeted = TRUE, !.waiting = @ \cup {"greeting"}]
                   ELSE [followup EXCEPT !.greeted = TRUE]
    /\ UNCHANGED <<clock, alarms, sessions, deviceConv, conns, convCounter, wakeCount, lastOp, calc, scanners>>

\* a transcript of the user is handed to the executor as a turn
UserTurnSubmit ==
    /\ followup.hydrated /\ ~followup.closed
    /\ "user" \notin followup.waiting
    /\ followup' = [followup EXCEPT !.waiting = @ \cup {"user"}]
    /\ UNCHANGED <<clock, alarms, sessions, deviceConv, conns, convCounter, wakeCount, lastOp, calc, scanners>>

\* a free worker thread starts the chat call of a submitted turn:
\* llm_finish_task = False, and for a turn of the user the latch and the
\* cancellation
WorkerBegin(w, kind) ==
    /\ followup.workers[w] = ""
    /\ IF kind = "followup" THEN followup.queued > 0 ELSE kind \in followup.waiting
    /\ LET f == [followup EXCEPT
                    !.workers[w] = kind,
                    !.llm_finish_task = FALSE,
                    !.queued = IF kind = "followup" THEN @ - 1 ELSE @,
                    !.waiting = @ \ {kind}]
       IN  followup' = IF SetsLatch(IF kind = "user" THEN "hi" ELSE "", kind = "user")
                       THEN CancelPending([f EXCEPT !.user_has_responded = TRUE])
                       ELSE f
    /\ UNCHANGED <<clock, alarms, sessions, deviceConv, conns, convCounter, wakeCount, lastOp, calc, scanners>>

\* the chat call of a worker thread ends: llm_finish_task = True
WorkerFinish(w) ==
    /\ followup.workers[w] # ""
    /\ followup' = [followup EXCEPT !.workers[w] = "", !.llm_finish_task = TRUE,
                                    !.tts_pending = TRUE]
    /\ UNCHANGED <<clock, alarms, sessions, deviceConv, conns, convCounter, wakeCount, lastOp, calc, scanners>>

NextTurns ==
    \/ \E e \in BOOLEAN : Hydrate(e)
    \/ GreetingTrigger
    \/ UserTurnSubmit
    \/ \E w \in WorkerIds : \E kind \in {"user", "greeting", "followup"} : WorkerBegin(w, kind)
    \/ \E w \in WorkerIds : WorkerFinish(w)
    \/ TtsStop
    \/ \E t \in TimerIds : TimerWake(t)
    \/ \E t \in TimerIds : \E b \in BOOLEAN : TimerCheckLatch(t, b)
    \/ \E t \in TimerIds : \E b \in BOOLEAN : TimerCheckIdle(t, b)
    \/ \E t \in TimerIds : TimerFire(t)

SpecTurns == Init /\ [][NextTurns]_vars

(***************************************************************************)
(* core/connection.py : the target delay of a follow-up.  Delays are whole *)
(* seconds.                                                                *)
(***************************************************************************)
\* the values a configured delay takes
DelayValues == {10, 15, 20, 60}

\* _apply_mode_session_settings: followup_delays is the configured list when
\* it is a list with elements, and [10, 15, 20] otherwise
followup_delays_from_config(delays) ==
    IF delays.is_list /\ Len(delays.items) > 0 THEN delays.items
    ELSE <<10, 15, 20>>

\* _schedule_followup: "determine the next escalating delay"
next_delay(followup_delays, followup_delay, followup_count) ==
    LET next_index == followup_count
    IN  IF next_index < Len(followup_delays)
        THEN followup_delays[next_index + 1]
        ELSE LET base == IF followup_delay = 0 THEN 25 ELSE followup_delay
             IN  base + next_index * 10

\* a connection is hydrated with a mode configuration
DelayHydrate(delays, followup_delay) ==
    /\ lastOp.kind = "init"
    /\ lastOp' = [kind            |-> "delay",
                  config          |-> delays,
                  followup_delays |-> followup_delays_from_config(delays),
                  followup_delay  |-> followup_delay,
                  followup_count  |-> 0,
                  targets         |-> <<>>]
    /\ UNCHANGED <<clock, alarms, sessions, deviceConv, conns, convCounter, wakeCount, calc, scanners, followup>>

\* _schedule_followup computes the target delay of follow-up number
\* followup_count + 1, and that follow-up fires
DelaySchedule ==
    /\ lastOp.kind = "delay"
    /\ lastOp.followup_count < MaxDelayIndex
    /\ lastOp' = [lastOp EXCEPT
                     !.targets = Append(@, next_delay(lastOp.followup_delays,
                                                      lastOp.followup_delay,
                                                      lastOp.followup_count)),
                     !.followup_count = @ + 1]
    /\ UNCHANGED <<clock, alarms, sessions, deviceConv, conns, convCounter, wakeCount, calc, scanners, followup>>

NextDelay ==
    \/ \E delays \in ({[is_list |-> FALSE, items |-> <<>>]}
                      \cup {[is_list |-> TRUE, items |-> l] :
                               l \in {<<>>} \cup [1..1 -> DelayValues] \cup [1..2 -> DelayValues]
                                     \cup [1..3 -> DelayValues]}), followup_delay \in ({0, 5, 10, 25}) :
          DelayHydrate(delays, followup_delay)
    \/ DelaySchedule

SpecDelay == Init /\ [][NextDelay]_vars

(***************************************************************************)
(* The audio reorder buffer of one connection: _process_websocket_audio is *)
(* called once for every frame that arrives over the relay, with the       *)
(* frame's sender timestamp.  A frame is the pair of its arrival number    *)
(* and its timestamp.                                                      *)
(***************************************************************************)
\* the attributes created on the first call; the dictionary
\* audio_timestamp_buffer is a function from its keys to the frames
AudioState ==
    IF lastOp.kind = "audio" THEN lastOp
    ELSE [kind |-> "audio", received |-> <<>>, audio_timestamp_buffer |-> <<>>, last_processed_timestamp |-> 0, asr_audio_queue |-> <<>>]

\* the while processed_any loop: the smallest buffered timestamp above
\* last_processed_timestamp is popped and emitted, until there is none
RECURSIVE DrainBuffer(_)
DrainBuffer(a) ==
    LET later == {ts \in DOMAIN a.audio_timestamp_buffer : ts > a.last_processed_timestamp} IN
    IF later = {} THEN a
    ELSE LET ts == CHOOSE m \in later : \A x \in later : m <= x IN
         DrainBuffer([a EXCEPT !.audio_timestamp_buffer = [k \in DOMAIN @ \ {ts} |-> @[k]],
                               !.asr_audio_queue = Append(@, a.audio_timestamp_buffer[ts]),
                               !.last_processed_timestamp = ts])

\* the reorder buffer without the test of its size: every late frame is
\* stored
process_websocket_audio_unbounded(a, frame) ==
    IF frame.ts >= a.last_processed_timestamp
    THEN DrainBuffer([a EXCEPT !.asr_audio_queue = Append(@, frame), !.last_processed_timestamp = frame.ts])
    ELSE [a EXCEPT !.audio_timestamp_buffer = [k \in DOMAIN @ \cup {frame.ts} |-> IF k = frame.ts THEN frame ELSE @[k]]]

\* the reorder buffer with "timestamp > last_processed_timestamp": a frame
\* that repeats the last emitted timestamp counts as late
process_websocket_audio_strict(a, frame) ==
    IF frame.ts > a.last_processed_timestamp
    THEN DrainBuffer([a EXCEPT !.asr_audio_queue = Append(@, frame), !.last_processed_timestamp = frame.ts])
    ELSE IF Cardinality(DOMAIN a.audio_timestamp_buffer) < MaxBufferSize
         THEN [a EXCEPT !.audio_timestamp_buffer = [k \in DOMAIN @ \cup {frame.ts} |-> IF k = frame.ts THEN frame ELSE @[k]]]
         ELSE [a EXCEPT !.asr_audio_queue = Append(@, frame)]

\* audio_timestamp_buffer[timestamp] = audio_data replaces what was stored
\* under the same key
process_websocket_audio(a, frame) ==
    IF frame.ts >= a.last_processed_timestamp
    THEN DrainBuffer([a EXCEPT !.asr_audio_queue = Append(@, frame), !.last_processed_timestamp = frame.ts])
    ELSE IF Cardinality(DOMAIN a.audio_timestamp_buffer) < MaxBufferSize
         THEN [a EXCEPT !.audio_timestamp_buffer = [k \in DOMAIN @ \cup {frame.ts} |-> IF k = frame.ts THEN frame ELSE @[k]]]
         ELSE [a EXCEPT !.asr_audio_queue = Append(@, frame)]

\* one frame arrives
ProcessWebsocketAudio(timestamp) ==
    /\ lastOp.kind \in {"init", "audio"}
    /\ Len(AudioState.received) < MaxFrames
    /\ LET frame == [id |-> Len(AudioState.received) + 1, ts |-> timestamp] IN
         lastOp' = process_websocket_audio([AudioState EXCEPT !.received = Append(@, frame)], frame)
    /\ UNCHANGED <<clock, alarms, sessions, deviceConv, conns, convCounter, wakeCount, calc, scanners, followup>>

NextAudio == \E timestamp \in {10, 20, 30, 40, 50} : ProcessWebsocketAudio(timestamp)

SpecAudio == Init /\ [][NextAudio]_vars

(***************************************************************************)
(* One invocation of scan_due_alarms on every content of the two stores    *)
(* within the bounds: triggers with and without timezone, with missing,    *)
(* empty, malformed and well-formed targets lists, already processed or    *)
(* not; devices without lock, with a live lock and with an expired one;    *)
(* store calls failing; publishes succeeding or not.                       *)
(***************************************************************************)
\* the instant of the invocation
BatchNow == SESSION_TTL

BatchTarget(d, shape) == [device_id |-> d, mode |-> "morning_alarm", shape |-> shape]

\* a trigger at the far edge of the window, every day at local time 1
BatchAlarm(id, tz, targets, last_processed) ==
    [alarm_id |-> id, user_id |-> "u1", label |-> "wake",
     schedule_time_local |-> 1, days |-> {}, timezone |-> tz,
     status |-> "on", next_occurrence_utc |-> BatchNow + LOOKAHEAD,
     last_processed_utc |-> last_processed, targets |-> targets]

BatchAlarmStores ==
    {[id \in AlarmIds |-> BatchAlarm(id, tz[id], tg[id], lp[id])] :
        tz \in [AlarmIds -> {"", "UTC"}],
        tg \in [AlarmIds -> ({<<>>,
                              <<BatchTarget("d1", "map")>>,
                              <<BatchTarget("d1", "map"), BatchTarget("d2", "map")>>,
                              <<BatchTarget("", "map"), BatchTarget("d2", "map")>>,
                              <<BatchTarget("d1", "map"), BatchTarget("d2", "no_mode")>>,
                              <<BatchTarget("d2", "not_a_map")>>})],
        lp \in [AlarmIds -> {None, BatchNow + LOOKAHEAD}]}

\* the trigger store as its writers left it before the invocation
BatchSeedAlarms(alarmStore) ==
    /\ lastOp.kind = "init"
    /\ alarms' = alarmStore
    /\ clock' = BatchNow
    /\ lastOp' = [kind |-> "seed_alarms"]
    /\ UNCHANGED <<sessions, deviceConv, conns, convCounter, wakeCount, calc, scanners, followup>>

\* the lock store as earlier invocations left it
BatchSeedLocks(sessionStore) ==
    /\ lastOp.kind = "seed_alarms"
    /\ sessions' = sessionStore
    /\ lastOp' = [kind |-> "seed_locks"]
    /\ UNCHANGED <<clock, alarms, deviceConv, conns, convCounter, wakeCount, calc, scanners, followup>>

\* scan_due_alarms: one invocation at BatchNow on the two stores
BatchScan(alarmStore, sessionStore, failing, delivered) ==
    /\ lastOp.kind = "seed_locks"
    /\ \E out \in {scan_due_alarms(sessionStore, alarmStore, BatchNow, failing, delivered)} :
        /\ sessions' = out.sessions
        /\ alarms' = out.alarms
        /\ wakeCount' = CountWakes(wakeCount, out.wake_requests, 1)
        /\ lastOp' = [kind          |-> "batch",
                      pre_alarms    |-> alarmStore,
                      pre_sessions  |-> sessionStore,
                      failing       |-> failing,
                      delivered     |-> delivered,
                      raised        |-> out.raised,
                      wake_requests |-> out.wake_requests,
                      attempts      |-> out.attempts,
                      response      |-> out.response]
        /\ UNCHANGED <<clock, deviceConv, conns, convCounter, calc, scanners, followup>>

\* the outcomes of the publishes tried on a trigger store
BatchDelivered(alarmStore) ==
    IF alarmStore \in ({st \in BatchAlarmStores :
                           \A id \in AlarmIds : st[id].timezone = "UTC" /\ st[id].last_processed_utc = None}) THEN (SUBSET ({Endpoints[i] : i \in 1..Len(Endpoints)} \X Devices)) ELSE {({Endpoints[i] : i \in 1..Len(Endpoints)} \X Devices)}

NextBatch ==
    \/ \E alarmStore \in BatchAlarmStores : BatchSeedAlarms(alarmStore)
    \/ \E sessionStore \in [Devices -> ({NoDoc,
                                         create_session([d \in Devices |-> NoDoc], "d1", SESSION_TYPE, AlarmConfig,
                                                        SESSION_TTL, BatchNow - SESSION_TTL, BatchNow - SESSION_TTL).store["d1"],
                                         create_session([d \in Devices |-> NoDoc], "d1", SESSION_TYPE, AlarmConfig,
                                                        SESSION_TTL, BatchNow - 1, BatchNow - 1).store["d1"]})] : BatchSeedLocks(sessionStore)
    \/ \E failing \in FailSets, delivered \in BatchDelivered(alarms) :
          BatchScan(alarms, sessions, failing, delivered)

SpecBatch == Init /\ [][NextBatch]_vars

(***************************************************************************)
(* The recurrence calculator on its own: compute_next_occurrence applied   *)
(* to every rule, zone and pair of instants within the bounds.             *)
(***************************************************************************)
CalcAlarm(time_local, days, tz, next_occurrence) ==
    [alarm_id |-> "a1", user_id |-> "u1", label |-> "wake",
     schedule_time_local |-> time_local, days |-> days, timezone |-> tz,
     status |-> "on", next_occurrence_utc |-> next_occurrence,
     last_processed_utc |-> None, targets |-> <<>>]

CalcNext(time_local, days, tz, next_occurrence, now) ==
    /\ ~calc.done
    /\ calc' = [done   |-> TRUE,
                alarm  |-> CalcAlarm(time_local, days, tz, next_occurrence),
                now    |-> now,
                result |-> compute_next_occurrence(
                               CalcAlarm(time_local, days, tz, next_occurrence), now)]
    /\ UNCHANGED <<clock, alarms, sessions, deviceConv, conns, convCounter,
                   wakeCount, lastOp, scanners, followup>>

NextCalc ==
    /\ ~calc.done
    /\ \E time_local \in 0..(DayLen - 1), days \in SUBSET ({DAY_NAMES[i] : i \in 1..7}),
          tz \in ({"UTC", "West", "East"}) \cup {""}, ref \in (0..(7 * DayLen)), skew \in 0..CalcSkew :
           \/ CalcNext(time_local, days, tz, ref, ref + skew)
           \/ CalcNext(time_local, days, tz, ref + skew, ref)
           \/ CalcNext(time_local, days, tz, None, ref)

SpecCalc == Init /\ [][NextCalc]_vars

(***************************************************************************)
(* Properties                                                              *)
(***************************************************************************)
\* the scheduler would process the trigger if it scanned at now
Selected(alarm, now) ==
    /\ alarm.status = "on"
    /\ alarm.next_occurrence_utc # None
    /\ alarm.next_occurrence_utc <= now + LOOKAHEAD
    /\ ~(alarm.last_processed_utc # None
         /\ alarm.last_processed_utc >= alarm.next_occurrence_utc)

FiredAlarms(pairs) == {p[1] : p \in pairs}

FiredDevices(pairs) == {p[2] : p \in pairs}

\* C1: when a scan follows another scan at the same instant, no store call
\* failing in either and nothing else happening in between, no trigger and
\* no device fired by the first scan is fired by the second: the second
\* creates no lock and emits no wake request for them.
C1_RescanFiresNothingAgain ==
    (lastOp.kind = "scan" /\ lastOp.follows) =>
        /\ FiredAlarms(lastOp.prev_fired) \cap FiredAlarms(lastOp.fired) = {}
        /\ FiredDevices(lastOp.prev_fired) \cap FiredDevices(lastOp.fired) = {}

\* C1 witness: the second of two successive scans met a trigger that the
\* first had fired and that is still selected (it was not advanced)
C1_Witness ==
    /\ lastOp.kind = "scan" /\ lastOp.follows
    /\ \E p \in lastOp.prev_fired : Selected(alarms[p[1]], clock)

CalcReference ==
    IF calc.alarm.next_occurrence_utc = None THEN calc.now
    ELSE Max(calc.alarm.next_occurrence_utc, calc.now)

ScanInstants == 0..(2 * DayLen)

C10_UpdateFrame ==
    lastOp.kind = "update" =>
        LET pre  == lastOp.pre
            post == sessions[lastOp.device_id]
        IN  /\ pre.exists =>
                /\ post.exists
                /\ post.expiresAt = pre.expiresAt
                /\ post.triggeredAt = pre.triggeredAt
                /\ post.ttlSeconds = pre.ttlSeconds
                /\ post.sessionType = pre.sessionType
                /\ ~lastOp.patch.has_config => post.sessionConfig = pre.sessionConfig
                /\ lastOp.patch.conv_op = "unset" => post.conversation = pre.conversation
                /\ ~lastOp.patch.has_snooze => post.isSnoozeFollowUp = pre.isSnoozeFollowUp
            /\ lastOp.patch = NoPatch => (~lastOp.wrote /\ post = pre)

\* C10 witness: an update has changed the conversation of an unexpired lock
C10_Witness ==
    /\ lastOp.kind = "update"
    /\ lastOp.pre.exists /\ lastOp.pre.expiresAt # None
    /\ lastOp.pre.expiresAt > clock
    /\ lastOp.patch.conv_op = "set"
    /\ sessions[lastOp.device_id].conversation # lastOp.pre.conversation

(***************************************************************************)
(* Claims about one invocation (SpecBatch).                                *)
(***************************************************************************)
\* the result of the fetch of the recorded invocation
BatchFetched == fetch_due_alarms(lastOp.pre_alarms, BatchNow, LOOKAHEAD)

\* the triggers the loop of the recorded invocation does not skip at once
BatchProcessed ==
    {BatchFetched.docs[i].alarm_id : i \in
        {j \in 1..Len(BatchFetched.docs) : ~AlreadyProcessed(BatchFetched.docs[j])}}

\* the devices named by the targets of a trigger
TargetDevices(alarm) ==
    {alarm.targets[i].device_id : i \in 1..Len(alarm.targets)} \ {""}

\* the devices of the wake requests the recorded invocation returned
RequestDevices ==
    {lastOp.wake_requests[i].device_id : i \in 1..Len(lastOp.wake_requests)}

RequestAlarms ==
    {lastOp.wake_requests[i].alarm_id : i \in 1..Len(lastOp.wake_requests)}

ExpectedProcessed ==
    {a \in AlarmIds :
        /\ Selected(lastOp.pre_alarms[a], BatchNow)
        /\ TargetsOutcome(lastOp.pre_alarms[a].targets) = "ok"}

C14_MalformedTargetsSkipped ==
    lastOp.kind = "batch" =>
        \A a \in AlarmIds :
            TargetsOutcome(lastOp.pre_alarms[a].targets) # "ok" =>
                /\ a \notin RequestAlarms
                /\ alarms[a] = lastOp.pre_alarms[a]
                /\ lastOp.failing = {} =>
                      /\ ~lastOp.raised
                      /\ \A b \in ExpectedProcessed :
                            \A dev \in TargetDevices(lastOp.pre_alarms[b]) :
                               /\ LockHeld(sessions, dev, BatchNow)
                               /\ ~LockHeld(lastOp.pre_sessions, dev, BatchNow)
                                      => dev \in RequestDevices

OnlyProcessedTargets(a) ==
    TargetDevices(lastOp.pre_alarms[a]) \
        UNION {TargetDevices(lastOp.pre_alarms[b]) : b \in ExpectedProcessed}

\* lastProcessedUtc is set and >= nextOccurrenceUtc in the stored trigger
StoredAsProcessed(a) ==
    /\ lastOp.pre_alarms[a].last_processed_utc # None
    /\ lastOp.pre_alarms[a].last_processed_utc >= lastOp.pre_alarms[a].next_occurrence_utc

\* C17: a fetched trigger whose lastProcessedUtc is set and >= its
\* nextOccurrenceUtc is skipped entirely: no wake request, no write-back,
\* and the lock records of its devices are neither created nor removed.
C17_ProcessedTriggerSkipped ==
    lastOp.kind = "batch" =>
        \A a \in AlarmIds :
            StoredAsProcessed(a) =>
                /\ a \notin RequestAlarms
                /\ alarms[a] = lastOp.pre_alarms[a]
                /\ \A dev \in OnlyProcessedTargets(a) :
                      sessions[dev] = lastOp.pre_sessions[dev]

\* C17 witness: the processed trigger aims at a device whose lock has
\* expired (a read would remove it) while the other trigger fires
C17_Witness ==
    /\ lastOp.kind = "batch" /\ lastOp.failing = {}
    /\ StoredAsProcessed("a1")
    /\ \E dev \in OnlyProcessedTargets("a1") :
          /\ lastOp.pre_sessions[dev].exists
          /\ lastOp.pre_sessions[dev].expiresAt <= BatchNow
          /\ sessions[dev].exists
    /\ RequestAlarms = {"a2"}

RaceRequests(p, d) ==
    {i \in 1..Len(scanners.proc[p].requests) : scanners.proc[p].requests[i].device_id = d}

C19_NoFollowupAfterUserInput ==
    [][(followup.user_has_responded /\ followup.chat_pc # "cancel") =>
          /\ followup'.count = followup.count
          /\ followup'.submitted = followup.submitted]_vars

\* C20: the latch changes only in chat handling a turn of the user with
\* text and flagged as user input, that turn then cancels the pending timer
\* (its handle is done afterwards), no server turn changes the latch, and
\* the latch never returns to false
C20_LatchOnlyByUserInput ==
    [][/\ followup.user_has_responded => followup'.user_has_responded
       /\ (followup'.user_has_responded # followup.user_has_responded) =>
             /\ followup.hydrated
             /\ followup.chat_pc = "latch"
             /\ followup.turn.kind = "user"
             /\ followup.turn.is_user_input
             /\ followup.turn.query # ""
             /\ followup'.chat_pc = "cancel"
       /\ (followup.chat_pc = "cancel" /\ followup'.chat_pc # "cancel") =>
             /\ followup.turn.kind = "user"
             /\ followup'.task = followup.task
             /\ followup.task # 0 => TaskDone(followup', followup.task)
       /\ (followup.chat_pc = "latch" /\ followup.turn.kind # "user"
             /\ followup'.chat_pc # "latch") =>
             followup'.user_has_responded = followup.user_has_responded]_vars

\* the user answered while a timer was asleep: the timer was cancelled, the
\* latch is set, and a tool-result continuation with text has since passed
\* the latch code leaving it set
C20_Witness ==
    /\ followup.user_has_responded
    /\ followup.task # 0
    /\ followup.timers[followup.task] = [pc |-> "sleep", cancelled |-> TRUE]
    /\ followup.turn.kind = "tool_result"
    /\ followup.turn.query # ""
    /\ followup.chat_pc = "llm"

\* C21: the retry budget: the follow-up count never exceeds the configured
\* maximum
C21_RetryBudget == followup.count <= FollowupMax

\* C22: there is a fixed step such that every follow-up scheduled by a
\* connection targets delays[n] within the list and, past the end of the
\* list, delays[-1] + (n - len(delays) + first) * step, where first = 0 is
\* the formula as written and first = 1 makes the follow-up after the list
\* target the last delay plus one step
C22_EscalationPastList ==
    lastOp.kind = "delay" =>
        LET delays == lastOp.followup_delays IN
        \E step \in 0..60 : \E first \in {0, 1} :
            \A i \in 1..Len(lastOp.targets) :
                lastOp.targets[i] = IF i - 1 < Len(delays) THEN delays[i]
                                    ELSE delays[Len(delays)] + (i - 1 - Len(delays) + first) * step

\* C23: once close has run no follow-up timer of the connection polls any
\* more (every coroutine still on the event loop has been cancelled), the
\* follow-up count is not incremented again, and no submission of a
\* synthetic turn raises
C23_CloseCancelsFollowup ==
    [][followup.closed =>
          /\ \A t \in TimerIds :
                followup.timers[t].pc # "free" => followup.timers[t].cancelled
          /\ followup'.count = followup.count
          /\ followup'.submit_errors = followup.submit_errors]_vars

\* a coroutine that can still fire: it is asleep and not cancelled, or it
\* is past its await, where a cancellation no longer reaches it
CanStillFire(t) ==
    \/ followup.timers[t].pc \in {"woke", "checked", "fire"}
    \/ followup.timers[t].pc = "sleep" /\ ~followup.timers[t].cancelled

\* C24: at any time at most one follow-up timer of the connection can
\* still fire
C24_OneLiveTimer == Cardinality({t \in TimerIds : CanStillFire(t)}) <= 1

\* the worker threads that are inside a chat call
RunningChats == {w \in WorkerIds : followup.workers[w] # ""}

\* C25: a turn submitted by the follow-up timer or by the server greeting
\* never runs chat while another chat call of the connection is in
\* progress
C25_NoConcurrentTurns ==
    \A w \in RunningChats :
        followup.workers[w] \in {"followup", "greeting"} => RunningChats = {w}

\* C26: under fair scheduling of the timer and of the turn handling the
\* connection never stays for ever in a state where the nudging has begun
\* (a follow-up timer was scheduled), the connection is open with
\* follow-ups enabled, the user has not responded, count < max and no
\* follow-up timer is pending or able to fire
C26_KeepsNudging ==
    []<>(~(/\ followup.hydrated /\ ~followup.closed /\ followup.enabled
           /\ followup.task # 0
           /\ ~followup.user_has_responded
           /\ followup.count < FollowupMax
           /\ \A t \in TimerIds : ~CanStillFire(t)))

\* C27: the reorder buffer restores the order of the sender: the frames
\* that arrive with the timestamps 30, 10, 20, 40 are emitted in the order
\* 10, 20, 30, 40, and while the held-back set is below its capacity the
\* emitted frames are sorted by timestamp
C27_RestoresOrder ==
    LET received == AudioState.received
        emitted  == AudioState.asr_audio_queue
    IN  /\ [i \in DOMAIN received |-> received[i].ts] = <<30, 10, 20, 40>> =>
              [i \in DOMAIN emitted |-> emitted[i].ts] = <<10, 20, 30, 40>>
        /\ Cardinality(DOMAIN AudioState.audio_timestamp_buffer) < MaxBufferSize =>
              \A i, j \in DOMAIN emitted : i < j => emitted[i].ts <= emitted[j].ts

\* how often a frame has been put on the speech-recognition queue
EmittedCount(frame) == Cardinality({i \in DOMAIN AudioState.asr_audio_queue : AudioState.asr_audio_queue[i] = frame})

\* C28: the reorder buffer never drops a frame: every frame it was handed
\* has been emitted exactly once, or has not been emitted and is held back
\* for a later drain: it is stored under its timestamp, and its timestamp
\* is above last_processed_timestamp
C28_NeverDropsFrame ==
    \A i \in DOMAIN AudioState.received :
        LET frame == AudioState.received[i] IN
        \/ EmittedCount(frame) = 1
        \/ /\ EmittedCount(frame) = 0
           /\ frame.ts \in DOMAIN AudioState.audio_timestamp_buffer
           /\ AudioState.audio_timestamp_buffer[frame.ts] = frame
           /\ frame.ts > AudioState.last_processed_timestamp

\* C29: conversation scope isolation: the close of a connection bound to a
\* mode-scoped conversation writes the conversation into the Session Lock
\* and leaves the device record alone; the close of a connection bound to
\* a device-scoped conversation writes it into the device record and leaves
\* the Session Lock alone
C29_ScopeIsolationOnClose ==
    [][\A d \in ConnDevices :
          (conns[d].open /\ ~conns'[d].open) =>
            /\ conns[d].bound = "mode" =>
                  /\ deviceConv' = deviceConv
                  /\ conns[d].current_conversation_id # None =>
                        sessions'[d].conversation = [id |-> conns[d].current_conversation_id, last_used |-> clock]
            /\ conns[d].bound = "device" =>
                  /\ sessions' = sessions
                  /\ conns[d].current_conversation_id # None =>
                        /\ deviceConv'[d].id = conns[d].current_conversation_id
                        /\ deviceConv'[d].last_used = clock
            /\ conns[d].current_conversation_id = None =>
                  sessions' = sessions /\ deviceConv' = deviceConv]_vars

\* a mode-scoped connection has closed: the lock carries the conversation
\* with the instant of the close, next to a device record that holds
\* another conversation
C29_Witness ==
    /\ lastOp.kind = "close"
    /\ sessions["d1"].exists
    /\ sessions["d1"].conversation.id # None
    /\ sessions["d1"].conversation.last_used = clock
    /\ clock > 0
    /\ deviceConv["d1"].id = 12

\* C30: exactly one conversation binding per connection: it is mode-scoped
\* if and only if a Session Lock was hydrated and its merged mode
\* configuration has use_separate_conversation = true, and device-scoped
\* in every other case; binding touches the conversation of the bound
\* store only
C30_OneBinding ==
    [][\A d \in ConnDevices :
          (~conns[d].open /\ conns'[d].open) =>
            LET cfg      == sessions[d].sessionConfig
                hydrated == /\ sessions[d].exists
                            /\ ~is_expired(_hydrate_session(d, sessions[d], clock), clock)
                            /\ <<"get", d>> \notin lastOp'.failing
                flag     == /\ cfg.mode # ""
                            /\ \/ SessionModeConfig(cfg) = "true"
                               \/ SessionModeConfig(cfg) = "absent" /\ cfg.mode = "morning_alarm"
            IN  /\ conns'[d].bound = IF hydrated /\ flag THEN "mode" ELSE "device"
                /\ conns'[d].bound = "mode" => deviceConv' = deviceConv
                /\ conns'[d].bound = "device" => sessions' \in {sessions, delete_session(sessions, d)}
                /\ (conns'[d].use_mode_conversation /\ conns'[d].has_mode_session) <=> conns'[d].bound = "mode"]_vars

\* a connection is bound to the conversation of a lock whose mode is
\* unknown to MODE_CONFIG and whose mode_config sets the flag
C30_Witness ==
    /\ conns["d1"].open
    /\ conns["d1"].bound = "mode"
    /\ conns["d1"].current_conversation_id # None
    /\ sessions["d1"].sessionConfig.mode = "bedtime"

C32_DeviceBindingExpiry ==
    [][\A d \in ConnDevices :
          (~conns[d].open /\ conns'[d].open /\ conns'[d].bound = "device" /\ lastOp'.store_ok) =>
              LET rec     == deviceConv[d]
                  expired == rec.last_used # None /\ clock - rec.last_used > CONVERSATION_TTL
                  new     == conns'[d].current_conversation_id
              IN  /\ (rec.id # None /\ ~expired) =>
                        /\ new = rec.id
                        /\ deviceConv' = deviceConv
                        /\ convCounter' = convCounter
                  /\ expired =>
                        /\ deviceConv'[d].last_interaction_summary = rec.last_interaction_summary
                        /\ new # rec.id
                        /\ IF new # None
                           THEN deviceConv'[d].id = new /\ deviceConv'[d].last_used = clock
                           ELSE deviceConv'[d].id = None /\ deviceConv'[d].last_used = None]_vars

\* C33: hydration starts from a fresh state: the follow-up state is reset
\* (count 0, latch false, no timer handle, a pending timer cancelled);
\* without lock or without mode the connection is in plain mode (no active
\* mode, no instructions, no server greeting, follow-ups disabled);
\* otherwise the active mode is the lock's mode and every setting is the
\* value of the session's mode_config if it has the key, else that of the
\* static configuration of the mode, else the default
C33_HydrationFresh ==
    lastOp.kind = "hydrate" =>
        LET out      == lastOp.settings
            session  == lastOp.session
            static   == MODE_CONFIG(session[1].mode)
            override == session[1].mode_config
            Value(key, default) == IF key \in DOMAIN override THEN override[key]
                                   ELSE IF key \in DOMAIN static THEN static[key]
                                   ELSE default
        IN  /\ followup.count = 0 /\ ~followup.user_has_responded /\ followup.task = 0
            /\ lastOp.pre.task # 0 => followup.timers[lastOp.pre.task].cancelled
            /\ followup.enabled = out.followup_enabled
            /\ ~out.greeting_scheduled
            /\ IF session = <<>> \/ session[1].mode = ""
               THEN /\ out.active_mode = "" /\ out.instructions = ""
                    /\ ~out.server_initiate_chat /\ ~out.followup_enabled
                    /\ out.followup_delay = 10 /\ out.followup_max = 5
               ELSE /\ out.active_mode = session[1].mode
                    /\ out.instructions = IF Value("instructions_file", "") \in lastOp.readable
                                          THEN Value("instructions_file", "")
                                          ELSE Value("instructions", "")
                    /\ out.server_initiate_chat = Value("server_initiate_chat", FALSE)
                    /\ out.followup_enabled = Value("followup_enabled", FALSE)
                    /\ out.followup_delay = Value("followup_delay", 10)
                    /\ out.followup_max = Value("followup_max", 5)

\* a connection that had count and latch set and a timer pending was
\* hydrated under a lock of the configured mode whose mode_config lowers
\* followup_max
C33_Witness ==
    /\ lastOp.kind = "hydrate"
    /\ lastOp.pre.count > 0 /\ lastOp.pre.user_has_responded /\ lastOp.pre.task # 0
    /\ lastOp.session # <<>>
    /\ lastOp.settings.active_mode = "morning_alarm"
    /\ lastOp.settings.followup_max = 2
    /\ lastOp.settings.followup_enabled

\* C34: a follow-up timer fires only in a state where the latch
\* user_has_responded is false and the assistant is idle (llm_finish_task);
\* when it fires the count grows by exactly one and exactly one synthetic
\* turn is submitted; a timer that finds the assistant busy neither fires
\* nor ends
C34_FiresOnlyWhenQuiet ==
    [][\A t \in TimerIds :
          /\ (followup.timers[t].pc = "fire" /\ followup'.timers[t].pc = "free") =>
                /\ ~followup.user_has_responded
                /\ followup.llm_finish_task
                /\ followup'.count = followup.count + 1
                /\ followup'.submitted = followup.submitted + 1
                /\ followup'.queued = followup.queued + 1
          /\ (followup.timers[t].pc = "checked" /\ ~followup.llm_finish_task) =>
                followup'.timers[t].pc \in {"checked", "sleep"}]_vars

\* C35: the held-back set of the reorder buffer never holds more than
\* max_timestamp_buffer_size frames, whatever the arrival sequence, and a
\* late frame that arrives when the set is full is emitted at once and not
\* stored
C35_BufferBounded ==
    [][lastOp'.kind = "audio" =>
          LET before == AudioState
              after  == AudioState'
              frame  == after.received[Len(after.received)]
          IN  /\ Cardinality(DOMAIN after.audio_timestamp_buffer) <= MaxBufferSize
              /\ (/\ frame.ts < before.last_processed_timestamp
                  /\ Cardinality(DOMAIN before.audio_timestamp_buffer) = MaxBufferSize) =>
                    /\ after.asr_audio_queue = Append(before.asr_audio_queue, frame)
                    /\ after.audio_timestamp_buffer = before.audio_timestamp_buffer
                    /\ after.last_processed_timestamp = before.last_processed_timestamp]_vars

\* the held-back set is full and the last frame, a late one, went straight
\* to the speech-recognition queue
C35_Witness ==
    /\ lastOp.kind = "audio"
    /\ Cardinality(DOMAIN lastOp.audio_timestamp_buffer) = MaxBufferSize
    /\ Len(lastOp.received) > MaxBufferSize + 1
    /\ lastOp.received[Len(lastOp.received)].ts < lastOp.last_processed_timestamp
    /\ lastOp.asr_audio_queue[Len(lastOp.asr_audio_queue)] = lastOp.received[Len(lastOp.received)]
    /\ lastOp.received[Len(lastOp.received)].ts \notin DOMAIN lastOp.audio_timestamp_buffer

\* C36: last_processed_timestamp never decreases, and every timestamp in
\* the held-back set is strictly below last_processed_timestamp (so the
\* drain, which pops timestamps above it, finds none)
C36_HeldBackBelowLast ==
    [][lastOp'.kind = "audio" =>
          /\ AudioState'.last_processed_timestamp >= AudioState.last_processed_timestamp
          /\ \A ts \in DOMAIN AudioState'.audio_timestamp_buffer :
                ts < AudioState'.last_processed_timestamp]_vars

\* frames are held back, and a frame that repeats the last emitted
\* timestamp has been emitted after them
C36_Witness ==
    /\ lastOp.kind = "audio"
    /\ DOMAIN lastOp.audio_timestamp_buffer # {}
    /\ Len(lastOp.asr_audio_queue) > 1
    /\ lastOp.asr_audio_queue[Len(lastOp.asr_audio_queue)].ts = lastOp.asr_audio_queue[Len(lastOp.asr_audio_queue) - 1].ts
    /\ lastOp.received[Len(lastOp.received)] = lastOp.asr_audio_queue[Len(lastOp.asr_audio_queue)]
    /\ lastOp.received[Len(lastOp.received) - 1].ts < lastOp.last_processed_timestamp

C38_IdleAfterTurn ==
    [][(followup.chat_pc = "llm" /\ followup'.chat_pc = "idle") =>
          followup'.llm_finish_task]_vars

====
